---- MODULE Spec2Model ----
(***************************************************************************)
(* A model of rlox, a tree-walking interpreter for Lox written in Rust.    *)
(*                                                                         *)
(* The heap of Rc<RefCell<..>> cells is modelled by three arenas (envs,    *)
(* classes, instances); an Rc is an index into its arena and 0 is None.    *)
(* The recursive functions of the resolver and of the interpreter are      *)
(* RECURSIVE operators that thread the resolver or interpreter state and   *)
(* return it together with the result of the call.  A Rust panic (a failed *)
(* expect) is the signal "Panic", which nothing catches.                   *)
(***************************************************************************)
EXTENDS Integers, Sequences, FiniteSets, TLC

VARIABLES
    session,            \* the inputs handed to run(), in order (one for run_file)
    cur,                \* index of the input that run() is working on
    pc,                 \* where run() is: "resolve", "interpret", "ran", "exit", "panic"
    idx,                \* index of the next top-level statement of the current loop
    resolver,           \* Resolver { scopes, current_function, current_class }
    had_error,          \* lox.rs HAD_ERROR
    had_runtime_error,  \* lox.rs HAD_RUNTIME_ERROR
    interpreter,        \* Interpreter { globals, env, locals }
    envs,               \* arena of Environment { values, enclosing }
    classes,            \* arena of LoxClass { name, methods, superclass }
    instances,          \* arena of LoxInstance { class, fields }
    out,                \* what print statements wrote to stdout
    diag,               \* what the error reporters wrote to stdout
    ret                 \* result of the last Environment operation (SpecEnv)

vars == <<session, cur, pc, idx, resolver, had_error, had_runtime_error,
          interpreter, envs, classes, instances, out, diag, ret>>

-----------------------------------------------------------------------------
(* Bounds of the model. *)

\* environments the Environment-level specification allocates
MaxEnvs == 3
\* largest hop distance the Environment-level specification passes
MaxDistance == 3
\* deepest nesting of blocks in the programs of the Nest family
MaxNest == 3
\* the literals of the Shadow family are the numbers 1..MaxLiteral
MaxLiteral == 2
\* most calls of a closure in the programs of the Counter family
MaxCalls == 2
\* most arguments of a call in the programs of the Arity family
MaxArgs == 3

\* classes the class-level specification declares
MaxClasses == 3
\* most iterations of the loop in the programs of the Loop family
MaxLoops == 3

-----------------------------------------------------------------------------
(* Option<T>: None is the empty sequence, Some(x) is <<x>>. *)

NoneOpt == <<>>

Some(x) == <<x>>

is_some(o) == Len(o) > 0

unwrap(o) == o[1]

\* Option<Rc<..>> as an arena index: no cell has index 0
None == 0

\* a HashMap is a function; insert overwrites the entry of its key
EmptyMap == <<>>

insert(map, key, value) == (key :> value) @@ map

contains_key(map, key) == key \in DOMAIN map

-----------------------------------------------------------------------------
(* token.rs *)

Token(token_type, lexeme, line) ==
    [token_type |-> token_type, lexeme |-> lexeme, line |-> line]

-----------------------------------------------------------------------------
(* LoxType: the runtime values. *)

Nil == [t |-> "Nil"]

Boolean(b) == [t |-> "Boolean", b |-> b]

Number(n) == [t |-> "Number", n |-> n]

String(s) == [t |-> "String", s |-> s]

Callable(function) == [t |-> "Callable", f |-> function]

Class(class) == [t |-> "Class", id |-> class]

Instance(instance) == [t |-> "Instance", id |-> instance]

-----------------------------------------------------------------------------
(* environment.rs.  Every operation takes the arena and the index of the   *)
(* receiver.  An operation that mutates returns the new arena.             *)

Environment_new == [values |-> EmptyMap, enclosing |-> None]

with_enclosing(enclosing) == [values |-> EmptyMap, enclosing |-> enclosing]

\* Rc::new(RefCell::new(e)): the cell gets the next index of the arena
alloc(arena, cell) == Append(arena, cell)

RECURSIVE get(_, _, _)
get(es, e, name) ==
    IF contains_key(es[e].values, name)
    THEN Some(es[e].values[name])
    ELSE IF es[e].enclosing # None
         THEN get(es, es[e].enclosing, name)
         ELSE NoneOpt

RECURSIVE ancestor_next(_, _, _, _)
ancestor_next(es, environment, i, distance) ==
    IF i >= distance
    THEN [panic |-> FALSE, env |-> environment]
    ELSE IF es[environment].enclosing = None
         THEN [panic |-> TRUE, env |-> None]
         ELSE ancestor_next(es, es[environment].enclosing, i + 1, distance)

ancestor(es, e, distance) ==
    IF es[e].enclosing = None
    THEN [panic |-> TRUE, env |-> None]
    ELSE ancestor_next(es, es[e].enclosing, 1, distance)

\* get_at made dynamic: the nearest binding of name on the chain, whatever the distance
get_at_nearest(es, e, distance, name) ==
    LET v == get(es, e, name)
    IN  IF is_some(v) THEN [panic |-> FALSE, value |-> v]
        ELSE [panic |-> TRUE, value |-> NoneOpt]

get_at(es, e, distance, name) ==
    IF distance > 0
    THEN LET a == ancestor(es, e, distance)
         IN  IF a.panic
             THEN [panic |-> TRUE, value |-> NoneOpt]
             ELSE IF contains_key(es[a.env].values, name)
                  THEN [panic |-> FALSE, value |-> Some(es[a.env].values[name])]
                  ELSE [panic |-> TRUE, value |-> NoneOpt]
    ELSE IF contains_key(es[e].values, name)
         THEN [panic |-> FALSE, value |-> Some(es[e].values[name])]
         ELSE [panic |-> TRUE, value |-> NoneOpt]

define(es, e, name, value) ==
    [es EXCEPT ![e].values = insert(@, name, value)]

\* an assign that binds the name in the outermost environment when none binds it
RECURSIVE assign_or_define(_, _, _, _)
assign_or_define(es, e, name, value) ==
    IF contains_key(es[e].values, name) \/ es[e].enclosing = None
    THEN [envs |-> define(es, e, name, value), success |-> TRUE]
    ELSE assign_or_define(es, es[e].enclosing, name, value)

RECURSIVE assign(_, _, _, _)
assign(es, e, name, value) ==
    IF contains_key(es[e].values, name)
    THEN [envs |-> define(es, e, name, value), success |-> TRUE]
    ELSE IF es[e].enclosing # None
         THEN assign(es, es[e].enclosing, name, value)
         ELSE [envs |-> es, success |-> FALSE]

\* assign_at made dynamic: the nearest binding of name on the chain is written
assign_at_nearest(es, e, distance, name, value) ==
    [panic |-> FALSE] @@ assign(es, e, name, value)

assign_at(es, e, distance, name, value) ==
    IF distance > 0
    THEN LET a == ancestor(es, e, distance)
         IN  IF a.panic
             THEN [panic |-> TRUE, envs |-> es, success |-> FALSE]
             ELSE [panic |-> FALSE,
                   envs |-> [es EXCEPT ![a.env].values = insert(@, name, value)],
                   success |-> TRUE]
    ELSE [panic |-> FALSE,
          envs |-> [es EXCEPT ![e].values = insert(@, name, value)],
          success |-> TRUE]

-----------------------------------------------------------------------------
(* ast.rs.  A node is a record whose field k names the variant.  An        *)
(* Option<Expr> or Option<Box<Stmt>> field holds a sequence of length 0 or 1.*)

Stmt_Block(stmts) == [k |-> "Block", stmts |-> stmts]

Stmt_Class(name, methods, opt_superclass) ==
    [k |-> "Class", name |-> name, methods |-> methods,
     opt_superclass |-> opt_superclass]

Stmt_Expression(expr) == [k |-> "Expression", expr |-> expr]

Stmt_Function(name, params, body) ==
    [k |-> "Function", name |-> name, params |-> params, body |-> body]

Stmt_If(condition, then_branch, opt_else_branch) ==
    [k |-> "If", condition |-> condition, then_branch |-> then_branch,
     opt_else_branch |-> opt_else_branch]

Stmt_Print(expr) == [k |-> "Print", expr |-> expr]

Stmt_Return(keyword, value) == [k |-> "Return", keyword |-> keyword, value |-> value]

Stmt_Var(name, initializer) == [k |-> "Var", name |-> name, initializer |-> initializer]

Stmt_While(condition, body) == [k |-> "While", condition |-> condition, body |-> body]

Expr_Assign(name, value) == [k |-> "Assign", name |-> name, value |-> value]

Expr_Binary(left, operator, right) ==
    [k |-> "Binary", left |-> left, operator |-> operator, right |-> right]

Expr_Call(callee, paren, arguments) ==
    [k |-> "Call", callee |-> callee, paren |-> paren, arguments |-> arguments]

Expr_Get(object, name) == [k |-> "Get", object |-> object, name |-> name]

Expr_Grouping(expr) == [k |-> "Grouping", expr |-> expr]

Expr_Literal(lit) == [k |-> "Literal", lit |-> lit]

Expr_Logical(left, operator, right) ==
    [k |-> "Logical", left |-> left, operator |-> operator, right |-> right]

Expr_Set(object, name, value) ==
    [k |-> "Set", object |-> object, name |-> name, value |-> value]

Expr_Super(keyword, method) == [k |-> "Super", keyword |-> keyword, method |-> method]

Expr_This(keyword) == [k |-> "This", keyword |-> keyword]

Expr_Unary(operator, right) == [k |-> "Unary", operator |-> operator, right |-> right]

Expr_Variable(name) == [k |-> "Variable", name |-> name]

is_nil(expr) == expr.k = "Literal" /\ expr.lit.t = "Nil"

-----------------------------------------------------------------------------
(* lox.rs: the error reporters.  A reporter prints one line and sets a     *)
(* flag; the printed lines are collected in a sequence.                    *)

\* report(line, where_, message) as called by parse_error for a token that is not Eof
parse_error(rs, token, message) ==
    [rs EXCEPT !.had_error = TRUE,
               !.diag = Append(@, [line |-> token.line, lexeme |-> token.lexeme,
                                   message |-> message])]

-----------------------------------------------------------------------------
(* resolver.rs.  rs is the Resolver together with what it writes outside   *)
(* itself: the interpreter's locals, HAD_ERROR and the printed diagnostics.*)

Resolver_new ==
    [scopes |-> <<>>, current_function |-> "None", current_class |-> "None"]

\* Interpreter::resolve
Interpreter_resolve(locals, name, depth) == insert(locals, name, depth)

begin_scope(rs) == [rs EXCEPT !.scopes = Append(@, EmptyMap)]

end_scope(rs) ==
    IF Len(rs.scopes) = 0 THEN rs
    ELSE [rs EXCEPT !.scopes = SubSeq(@, 1, Len(@) - 1)]

\* scopes.last_mut() followed by scope.insert(key, value)
insert_last(rs, key, value) ==
    IF Len(rs.scopes) = 0 THEN rs
    ELSE [rs EXCEPT !.scopes[Len(rs.scopes)] = insert(@, key, value)]

\* a declare that does not look whether the scope has the name
declare_unchecked(rs, name) == insert_last(rs, name.lexeme, FALSE)

declare(rs, name) ==
    IF Len(rs.scopes) = 0 THEN rs
    ELSE LET r1 == IF contains_key(rs.scopes[Len(rs.scopes)], name.lexeme)
                   THEN parse_error(rs, name,
                            "Already a variable with this name in this scope.")
                   ELSE rs
         IN  insert_last(r1, name.lexeme, FALSE)

resolver_define(rs, name) == insert_last(rs, name.lexeme, TRUE)

\* the loop of resolve_local: index counts the scopes from the innermost
RECURSIVE resolve_local_from(_, _, _)
resolve_local_from(rs, name, index) ==
    IF index >= Len(rs.scopes) THEN rs
    ELSE IF contains_key(rs.scopes[Len(rs.scopes) - index], name.lexeme)
         THEN [rs EXCEPT !.locals = Interpreter_resolve(@, name, index)]
         ELSE resolve_local_from(rs, name, index + 1)

resolve_local(rs, name) == resolve_local_from(rs, name, 0)

RECURSIVE resolve(_, _)
RECURSIVE resolve_statement(_, _)
RECURSIVE resolve_expression(_, _)
RECURSIVE resolve_function(_, _, _, _)
RECURSIVE resolve_arguments(_, _)
RECURSIVE resolve_methods(_, _)
RECURSIVE declare_params(_, _)

resolve(rs, stmts) ==
    IF Len(stmts) = 0 THEN rs
    ELSE resolve(resolve_statement(rs, Head(stmts)), Tail(stmts))

\* for param in params { declare(param); define(param) }
declare_params(rs, params) ==
    IF Len(params) = 0 THEN rs
    ELSE declare_params(resolver_define(declare(rs, Head(params)), Head(params)),
                        Tail(params))

\* a resolve_function that leaves current_function as the function left set it
resolve_function_no_restore(rs, params, body, function_type) ==
    LET r1 == begin_scope([rs EXCEPT !.current_function = function_type])
        r2 == declare_params(r1, params)
        r3 == resolve(r2, body)
    IN  end_scope(r3)

resolve_function(rs, params, body, function_type) ==
    LET enclosing_function == rs.current_function
        r1 == begin_scope([rs EXCEPT !.current_function = function_type])
        r2 == declare_params(r1, params)
        r3 == resolve(r2, body)
        r4 == end_scope(r3)
    IN  [r4 EXCEPT !.current_function = enclosing_function]

\* for method in methods of Stmt::Class
resolve_methods(rs, methods) ==
    IF Len(methods) = 0 THEN rs
    ELSE LET method == Head(methods)
             declaration == IF method.name.lexeme = "init"
                            THEN "Initializer" ELSE "Method"
             r1 == IF method.k = "Function"
                   THEN resolve_function(rs, method.params, method.body, declaration)
                   ELSE rs
         IN  resolve_methods(r1, Tail(methods))

resolve_statement(rs, stmt) ==
    CASE stmt.k = "Block" ->
            end_scope(resolve(begin_scope(rs), stmt.stmts))
      [] stmt.k = "Class" ->
            LET enclosing_class == rs.current_class
                r1 == resolver_define(
                          declare([rs EXCEPT !.current_class = "Class"], stmt.name),
                          stmt.name)
                has_super == is_some(stmt.opt_superclass)
                             /\ unwrap(stmt.opt_superclass).k = "Variable"
                superclass_name == unwrap(stmt.opt_superclass).name
                r2 == IF has_super
                      THEN LET s1 == IF stmt.name.lexeme = superclass_name.lexeme
                                     THEN parse_error(r1, superclass_name,
                                              "A class can't inherit from itself.")
                                     ELSE r1
                               s2 == resolve_local(
                                         [s1 EXCEPT !.current_class = "SubClass"],
                                         superclass_name)
                           IN  insert_last(begin_scope(s2), "super", TRUE)
                      ELSE r1
                r3 == insert_last(begin_scope(r2), "this", TRUE)
                r4 == resolve_methods(r3, stmt.methods)
                r5 == end_scope(r4)
                r6 == IF is_some(stmt.opt_superclass) THEN end_scope(r5) ELSE r5
            IN  [r6 EXCEPT !.current_class = enclosing_class]
      [] stmt.k = "Expression" ->
            resolve_expression(rs, stmt.expr)
      [] stmt.k = "Function" ->
            resolve_function(resolver_define(declare(rs, stmt.name), stmt.name),
                             stmt.params, stmt.body, "Function")
      [] stmt.k = "If" ->
            LET r1 == resolve_expression(rs, stmt.condition)
                r2 == resolve_statement(r1, stmt.then_branch)
            IN  IF is_some(stmt.opt_else_branch)
                THEN resolve_statement(r2, unwrap(stmt.opt_else_branch))
                ELSE r2
      [] stmt.k = "Print" ->
            resolve_expression(rs, stmt.expr)
      [] stmt.k = "Return" ->
            LET r1 == IF rs.current_function = "None"
                      THEN parse_error(rs, stmt.keyword,
                               "Can't return from top-level code.")
                      ELSE rs
            IN  IF ~is_nil(stmt.value)
                THEN LET r2 == IF r1.current_function = "Initializer"
                               THEN parse_error(r1, stmt.keyword,
                                        "Can't return a value from an initializer.")
                               ELSE r1
                     IN  resolve_expression(r2, stmt.value)
                ELSE r1
      [] stmt.k = "Var" ->
            LET r1 == declare(rs, stmt.name)
                r2 == IF ~is_nil(stmt.initializer)
                      THEN resolve_expression(r1, stmt.initializer)
                      ELSE r1
            IN  resolver_define(r2, stmt.name)
      [] stmt.k = "While" ->
            resolve_statement(resolve_expression(rs, stmt.condition), stmt.body)

resolve_arguments(rs, arguments) ==
    IF Len(arguments) = 0 THEN rs
    ELSE resolve_arguments(resolve_expression(rs, Head(arguments)), Tail(arguments))

resolve_expression(rs, expr) ==
    CASE expr.k = "Assign" ->
            resolve_local(resolve_expression(rs, expr.value), expr.name)
      [] expr.k = "Binary" ->
            resolve_expression(resolve_expression(rs, expr.left), expr.right)
      [] expr.k = "Call" ->
            resolve_arguments(resolve_expression(rs, expr.callee), expr.arguments)
      [] expr.k = "Get" ->
            resolve_expression(rs, expr.object)
      [] expr.k = "Grouping" ->
            resolve_expression(rs, expr.expr)
      [] expr.k = "Literal" ->
            rs
      [] expr.k = "Logical" ->
            resolve_expression(resolve_expression(rs, expr.left), expr.right)
      [] expr.k = "Set" ->
            resolve_expression(resolve_expression(rs, expr.value), expr.object)
      [] expr.k = "Super" ->
            LET r1 == CASE rs.current_class = "None" ->
                              parse_error(rs, expr.keyword,
                                  "Can't use 'super' outside of a class.")
                        [] rs.current_class = "Class" ->
                              parse_error(rs, expr.keyword,
                                  "Can't use 'super' in a class with no superclass.")
                        [] rs.current_class = "SubClass" -> rs
            IN  resolve_local(r1, expr.keyword)
      [] expr.k = "This" ->
            IF rs.current_class = "None"
            THEN parse_error(rs, expr.keyword, "Can't use 'this' outside of a class.")
            ELSE resolve_local(rs, expr.keyword)
      [] expr.k = "Unary" ->
            resolve_expression(rs, expr.right)
      [] expr.k = "Variable" ->
            LET last == IF Len(rs.scopes) > 0 THEN rs.scopes[Len(rs.scopes)]
                        ELSE EmptyMap
                r1 == IF contains_key(last, expr.name.lexeme)
                         /\ ~last[expr.name.lexeme]
                      THEN parse_error(rs, expr.name,
                               "Can't read local variable in its own initializer.")
                      ELSE rs
            IN  resolve_local(r1, expr.name)

-----------------------------------------------------------------------------
(* interpreter.rs: InterpreterError, and the Result of execute / evaluate. *)
(* st is the Interpreter together with the heap it works on and stdout:    *)
(* [envs, classes, instances, globals, env, locals, out, now].             *)

Ok == [k |-> "Ok"]

RuntimeError(token, message) ==
    [k |-> "RuntimeError", token |-> token, message |-> message]

Return(value) == [k |-> "Return", value |-> value]

\* a failed expect(): the thread panics and the process ends
Panic(message) == [k |-> "Panic", message |-> message]

\* Result<LoxType, InterpreterError> (value meaningful when sig is Ok) and the state
Res(st, sig, value) == [st |-> st, sig |-> sig, value |-> value]

-----------------------------------------------------------------------------
(* lox_type.rs.  Number is an f64; the model's numbers are integers, on    *)
(* which + - * and the comparisons are those of f64.  / is modelled where  *)
(* the quotient is an integer; any other quotient is the value Fraction.   *)

Fraction(n, m) == [t |-> "Number", num |-> n, den |-> m]

\* impl From<LoxType> for bool
truthy(value) ==
    CASE value.t = "Boolean" -> value.b
      [] value.t = "Nil" -> FALSE
      [] OTHER -> TRUE

\* impl PartialEq for LoxType
lox_eq(a, b) ==
    CASE a.t = "Boolean" /\ b.t = "Boolean" -> a.b = b.b
      [] a.t = "Nil" /\ b.t = "Nil" -> TRUE
      [] a.t = "Number" /\ b.t = "Number" -> a = b
      [] a.t = "String" /\ b.t = "String" -> a.s = b.s
      [] OTHER -> FALSE

-----------------------------------------------------------------------------
(* function.rs *)

Function_Native(arity, body) == [native |-> TRUE, arity |-> arity, nbody |-> body]

Function_User(name, params, body, closure, is_initializer) ==
    [native |-> FALSE, name |-> name, params |-> params, body |-> body,
     closure |-> closure, is_initializer |-> is_initializer]

\* arity that counts no parameter of a user function
arity_no_params(function) ==
    IF function.native THEN function.arity ELSE 0

arity(function) ==
    IF function.native THEN function.arity ELSE Len(function.params)

\* for (param, arg) in params.iter().zip(arguments) { env.define(param.lexeme, arg) }
RECURSIVE define_params(_, _, _, _)
define_params(es, e, params, arguments) ==
    IF Len(params) = 0 \/ Len(arguments) = 0 THEN es
    ELSE define_params(define(es, e, Head(params).lexeme, Head(arguments)),
                       e, Tail(params), Tail(arguments))

\* a bind that defines this in the closure of the method itself
bind_in_place(es, function, instance) ==
    [envs |-> define(es, function.closure, "this", instance),
     function |-> function]

\* Function::bind: the new closure is allocated in the arena
bind(es, function, instance) ==
    LET es1 == alloc(es, with_enclosing(function.closure))
        env == Len(es1)
    IN  [envs |-> define(es1, env, "this", instance),
         function |-> Function_User(function.name, function.params, function.body,
                                    env, function.is_initializer)]

\* the body of the native function clock; now < 0 stands for a clock before the epoch
clock(st, arguments) ==
    IF st.now >= 0
    THEN Res(st, Ok, Number(st.now))
    ELSE Res(st, RuntimeError(NoneOpt, "could not retrieve time."), Nil)

-----------------------------------------------------------------------------
(* class.rs *)

LoxClass_new(name, methods, superclass) ==
    [name |-> name, methods |-> methods, superclass |-> superclass]

\* a find_method that looks in the method table of the class itself only
find_method_own_only(cs, c, name) ==
    IF contains_key(cs[c].methods, name)
    THEN Some(cs[c].methods[name])
    ELSE NoneOpt

RECURSIVE find_method(_, _, _)
find_method(cs, c, name) ==
    IF contains_key(cs[c].methods, name)
    THEN Some(cs[c].methods[name])
    ELSE IF cs[c].superclass # None
         THEN find_method(cs, cs[c].superclass, name)
         ELSE NoneOpt

LoxInstance_new(class) == [class |-> class, fields |-> EmptyMap]

\* a property read that looks among the methods of the class first
LoxInstance_get_methods_first(st, name, instance) ==
    LET self == st.instances[instance.id]
        method == find_method(st.classes, self.class, name.lexeme)
    IN  IF is_some(method)
        THEN LET b == bind(st.envs, unwrap(method), instance)
             IN  Res([st EXCEPT !.envs = b.envs], Ok, Callable(b.function))
        ELSE IF contains_key(self.fields, name.lexeme)
             THEN Res(st, Ok, self.fields[name.lexeme])
             ELSE Res(st, RuntimeError(Some(name),
                          "Undefined property '" \o name.lexeme \o "'."), Nil)

\* LoxInstance::get; instance is the LoxType::Instance value of the receiver
LoxInstance_get(st, name, instance) ==
    LET self == st.instances[instance.id]
        method == find_method(st.classes, self.class, name.lexeme)
    IN  IF contains_key(self.fields, name.lexeme)
        THEN Res(st, Ok, self.fields[name.lexeme])
        ELSE IF is_some(method)
             THEN LET b == bind(st.envs, unwrap(method), instance)
                  IN  Res([st EXCEPT !.envs = b.envs], Ok, Callable(b.function))
             ELSE Res(st, RuntimeError(Some(name),
                          "Undefined property '" \o name.lexeme \o "'."), Nil)

\* a property write that reaches every instance of the receiver's class
LoxInstance_set_every_instance(is, i, name, value) ==
    [j \in DOMAIN is |->
        IF is[j].class = is[i].class
        THEN [is[j] EXCEPT !.fields = insert(@, name.lexeme, value)]
        ELSE is[j]]

LoxInstance_set(is, i, name, value) ==
    [is EXCEPT ![i].fields = insert(@, name.lexeme, value)]

-----------------------------------------------------------------------------
(* Display, as print writes a value. *)

display(st, value) ==
    CASE value.t = "Boolean" -> IF value.b THEN "true" ELSE "false"
      [] value.t = "Number" -> ToString(value.n)
      [] value.t = "String" -> value.s
      [] value.t = "Nil" -> "nil"
      [] value.t = "Callable" ->
            IF value.f.native THEN "<native func>"
            ELSE "<fn " \o value.f.name.lexeme \o ">"
      [] value.t = "Class" -> "<class " \o st.classes[value.id].name \o ">"
      [] value.t = "Instance" ->
            "<instance " \o st.classes[st.instances[value.id].class].name \o ">"

-----------------------------------------------------------------------------
(* interpreter.rs *)

\* Interpreter::new: the globals hold the native function clock
Interpreter_new ==
    [globals |-> 1, env |-> 1, locals |-> EmptyMap]

Interpreter_new_envs ==
    define(alloc(<<>>, Environment_new), 1, "clock",
           Callable(Function_Native(0, "clock")))

\* lookup_variable whose fallback walks the current chain instead of the globals
lookup_variable_chain(st, name) ==
    IF contains_key(st.locals, name)
    THEN LET g == get_at(st.envs, st.env, st.locals[name], name.lexeme)
         IN  IF g.panic
             THEN Res(st, Panic("Undefined variable '" \o name.lexeme \o "'"), Nil)
             ELSE Res(st, Ok, unwrap(g.value))
    ELSE LET opt_value == get(st.envs, st.env, name.lexeme)
         IN  IF is_some(opt_value)
             THEN Res(st, Ok, unwrap(opt_value))
             ELSE Res(st, RuntimeError(Some(name),
                          "Undefined variable '" \o name.lexeme \o "'."), Nil)

lookup_variable(st, name) ==
    IF contains_key(st.locals, name)
    THEN LET g == get_at(st.envs, st.env, st.locals[name], name.lexeme)
         IN  IF g.panic
             THEN Res(st, Panic("Undefined variable '" \o name.lexeme \o "'"), Nil)
             ELSE Res(st, Ok, unwrap(g.value))
    ELSE LET opt_value == get(st.envs, st.globals, name.lexeme)
         IN  IF is_some(opt_value)
             THEN Res(st, Ok, unwrap(opt_value))
             ELSE Res(st, RuntimeError(Some(name),
                          "Undefined variable '" \o name.lexeme \o "'."), Nil)

check_number_operand(st, token, operand) ==
    IF operand.t = "Number"
    THEN Res(st, Ok, operand)
    ELSE Res(st, RuntimeError(Some(token), "Operand must be a number."), Nil)

check_number_operands(token, left, right) ==
    IF left.t = "Number" /\ right.t = "Number"
    THEN Ok
    ELSE RuntimeError(Some(token), "Operands must be numbers.")

\* the match on operator.token_type of Expr::Binary, both operands evaluated
binary(st, operator, l, r) ==
    LET chk == check_number_operands(operator, l, r)
        num(v) == IF chk.k = "Ok" THEN Res(st, Ok, v) ELSE Res(st, chk, Nil)
        ty == operator.token_type
    IN  CASE ty = "Minus" -> num(Number(l.n - r.n))
          [] ty = "Plus" ->
                CASE l.t = "Number" /\ r.t = "Number" -> Res(st, Ok, Number(l.n + r.n))
                  [] l.t = "String" /\ r.t = "String" -> Res(st, Ok, String(l.s \o r.s))
                  [] OTHER -> Res(st, RuntimeError(Some(operator),
                                      "Operands must be two numbers or two strings."), Nil)
          [] ty = "Slash" ->
                num(IF r.n # 0 /\ l.n % r.n = 0 THEN Number(l.n \div r.n)
                    ELSE Fraction(l.n, r.n))
          [] ty = "Star" -> num(Number(l.n * r.n))
          [] ty = "Greater" -> num(Boolean(l.n > r.n))
          [] ty = "GreaterEqual" -> num(Boolean(l.n >= r.n))
          [] ty = "Less" -> num(Boolean(l.n < r.n))
          [] ty = "LessEqual" -> num(Boolean(l.n <= r.n))
          [] ty = "BangEqual" -> Res(st, Ok, Boolean(~lox_eq(l, r)))
          [] ty = "EqualEqual" -> Res(st, Ok, Boolean(lox_eq(l, r)))

\* the message of an arity mismatch
arity_message(expected, got) ==
    "Expected " \o ToString(expected) \o " arguments but got " \o ToString(got) \o "."

RECURSIVE execute(_, _)
RECURSIVE execute_stmts(_, _)
RECURSIVE execute_block(_, _, _)
RECURSIVE execute_while(_, _)
RECURSIVE evaluate(_, _)
RECURSIVE evaluate_arguments(_, _, _)
RECURSIVE call(_, _, _)
RECURSIVE class_methods(_, _, _, _)

\* for stmt in stmts { self.execute(stmt)? }
execute_stmts(st, stmts) ==
    IF Len(stmts) = 0 THEN Res(st, Ok, Nil)
    ELSE LET r == execute(st, Head(stmts))
         IN  IF r.sig.k = "Ok" THEN execute_stmts(r.st, Tail(stmts)) ELSE r

\* execute_block that restores the environment after normal completion only
execute_block_restore_on_ok(st, stmts, env) ==
    LET previous == st.env
        res == execute_stmts([st EXCEPT !.env = env], stmts)
    IN  IF res.sig.k # "Ok" THEN res
        ELSE Res([res.st EXCEPT !.env = previous], res.sig, res.value)

\* execute_block that runs the statements in the current environment
execute_block_same_env(st, stmts, env) ==
    execute_stmts(st, stmts)

\* execute_block that does not restore the environment after a runtime error
execute_block_lost_on_error(st, stmts, env) ==
    LET previous == st.env
        res == execute_stmts([st EXCEPT !.env = env], stmts)
    IN  IF res.sig.k \in {"Panic", "RuntimeError"} THEN res
        ELSE Res([res.st EXCEPT !.env = previous], res.sig, res.value)

execute_block(st, stmts, env) ==
    LET previous == st.env
        res == execute_stmts([st EXCEPT !.env = env], stmts)
    IN  IF res.sig.k = "Panic" THEN res
        ELSE Res([res.st EXCEPT !.env = previous], res.sig, res.value)

\* a loop whose block body runs in one environment made before the loop
RECURSIVE while_in_environment(_, _, _)
while_in_environment(st, stmt, env) ==
    LET c == evaluate(st, stmt.condition)
    IN  IF c.sig.k # "Ok" THEN c
        ELSE IF ~truthy(c.value) THEN Res(c.st, Ok, Nil)
        ELSE LET b == execute_block(c.st, stmt.body.stmts, env)
             IN  IF b.sig.k # "Ok" THEN b ELSE while_in_environment(b.st, stmt, env)

execute_while_one_environment(st, stmt) ==
    IF stmt.body.k = "Block"
    THEN LET es == alloc(st.envs, with_enclosing(st.env))
         IN  while_in_environment([st EXCEPT !.envs = es], stmt, Len(es))
    ELSE LET c == evaluate(st, stmt.condition)
         IN  IF c.sig.k # "Ok" THEN c
             ELSE IF ~truthy(c.value) THEN Res(c.st, Ok, Nil)
             ELSE LET b == execute(c.st, stmt.body)
                  IN  IF b.sig.k # "Ok" THEN b ELSE execute_while(b.st, stmt)

\* while bool::from(self.evaluate(condition)?) { self.execute(body)?; }
execute_while(st, stmt) ==
    LET c == evaluate(st, stmt.condition)
    IN  IF c.sig.k # "Ok" THEN c
        ELSE IF ~truthy(c.value) THEN Res(c.st, Ok, Nil)
        ELSE LET b == execute(c.st, stmt.body)
             IN  IF b.sig.k # "Ok" THEN b ELSE execute_while(b.st, stmt)

\* the loop of Stmt::Class that fills class_methods; name is the name of the class
class_methods(st, name, methods, acc) ==
    IF Len(methods) = 0 THEN acc
    ELSE LET method == Head(methods)
             function == Function_User(method.name, method.params, method.body,
                                       st.env, name.lexeme = "init")
         IN  class_methods(st, name, Tail(methods),
                           insert(acc, method.name.lexeme, function))

\* Function::call
\* call that hands a Return of the body on to its caller
call_return_escapes(st, function, arguments) ==
    IF function.native
    THEN clock(st, arguments)
    ELSE LET es1 == alloc(st.envs, with_enclosing(function.closure))
             env == Len(es1)
             es2 == define_params(es1, env, function.params, arguments)
             r == execute_block([st EXCEPT !.envs = es2], function.body, env)
         IN  IF r.sig.k = "Ok" THEN Res(r.st, Ok, Nil) ELSE r

\* call that runs the body in the closure itself, with no environment of its own
call_in_closure(st, function, arguments) ==
    IF function.native
    THEN clock(st, arguments)
    ELSE LET env == function.closure
             es2 == define_params(st.envs, env, function.params, arguments)
             r == execute_block([st EXCEPT !.envs = es2], function.body, env)
         IN  CASE r.sig.k = "Ok" -> Res(r.st, Ok, Nil)
               [] r.sig.k = "Return" -> Res(r.st, Ok, r.sig.value)
               [] OTHER -> r

call(st, function, arguments) ==
    IF function.native
    THEN clock(st, arguments)
    ELSE LET es1 == alloc(st.envs, with_enclosing(function.closure))
             env == Len(es1)
             es2 == define_params(es1, env, function.params, arguments)
             r == execute_block([st EXCEPT !.envs = es2], function.body, env)
             this == get_at(r.st.envs, function.closure, 0, "this")
             this_or_panic ==
                 IF this.panic
                 THEN Res(r.st, Panic("Undefined variable 'this'"), Nil)
                 ELSE Res(r.st, Ok, unwrap(this.value))
         IN  CASE r.sig.k = "Ok" ->
                    IF function.is_initializer THEN this_or_panic
                    ELSE Res(r.st, Ok, Nil)
               [] r.sig.k = "Return" ->
                    IF function.is_initializer THEN this_or_panic
                    ELSE Res(r.st, Ok, r.sig.value)
               [] OTHER -> r

execute(st, stmt) ==
    CASE stmt.k = "Block" ->
            LET es1 == alloc(st.envs, with_enclosing(st.env))
            IN  execute_block([st EXCEPT !.envs = es1], stmt.stmts, Len(es1))
      [] stmt.k = "Class" ->
            LET es1 == define(st.envs, st.env, stmt.name.lexeme, Nil)
                ms == class_methods(st, stmt.name, stmt.methods, EmptyMap)
                cs1 == alloc(st.classes, LoxClass_new(stmt.name.lexeme, ms, None))
                es2 == assign(es1, st.env, stmt.name.lexeme, Class(Len(cs1))).envs
            IN  Res([st EXCEPT !.envs = es2, !.classes = cs1], Ok, Nil)
      [] stmt.k = "Expression" ->
            LET r == evaluate(st, stmt.expr)
            IN  Res(r.st, r.sig, Nil)
      [] stmt.k = "Function" ->
            LET function == Callable(Function_User(stmt.name, stmt.params, stmt.body,
                                                   st.env, FALSE))
            IN  Res([st EXCEPT !.envs = define(@, st.env, stmt.name.lexeme, function)],
                    Ok, Nil)
      [] stmt.k = "If" ->
            LET c == evaluate(st, stmt.condition)
            IN  IF c.sig.k # "Ok" THEN Res(c.st, c.sig, Nil)
                ELSE IF truthy(c.value) THEN execute(c.st, stmt.then_branch)
                ELSE IF is_some(stmt.opt_else_branch)
                     THEN execute(c.st, unwrap(stmt.opt_else_branch))
                     ELSE Res(c.st, Ok, Nil)
      [] stmt.k = "Print" ->
            LET r == evaluate(st, stmt.expr)
            IN  IF r.sig.k # "Ok" THEN Res(r.st, r.sig, Nil)
                ELSE Res([r.st EXCEPT !.out = Append(@, display(r.st, r.value))],
                         Ok, Nil)
      [] stmt.k = "Return" ->
            IF is_nil(stmt.value)
            THEN Res(st, Return(Nil), Nil)
            ELSE LET r == evaluate(st, stmt.value)
                 IN  IF r.sig.k # "Ok" THEN Res(r.st, r.sig, Nil)
                     ELSE Res(r.st, Return(r.value), Nil)
      [] stmt.k = "Var" ->
            LET r == evaluate(st, stmt.initializer)
            IN  IF r.sig.k # "Ok" THEN Res(r.st, r.sig, Nil)
                ELSE Res([r.st EXCEPT
                             !.envs = define(@, r.st.env, stmt.name.lexeme, r.value)],
                         Ok, Nil)
      [] stmt.k = "While" ->
            execute_while(st, stmt)

\* for argument in arguments { arguments_values.push(self.evaluate(argument)?); }
\* on success the value of the result is the sequence of the argument values
\* arguments evaluated from the last to the first
evaluate_arguments_right_to_left(st, arguments, arguments_values) ==
    IF Len(arguments) = 0 THEN Res(st, Ok, arguments_values)
    ELSE LET r == evaluate(st, arguments[Len(arguments)])
         IN  IF r.sig.k # "Ok" THEN r
             ELSE evaluate_arguments(r.st, SubSeq(arguments, 1, Len(arguments) - 1),
                                     <<r.value>> \o arguments_values)

evaluate_arguments(st, arguments, arguments_values) ==
    IF Len(arguments) = 0 THEN Res(st, Ok, arguments_values)
    ELSE LET r == evaluate(st, Head(arguments))
         IN  IF r.sig.k # "Ok" THEN r
             ELSE evaluate_arguments(r.st, Tail(arguments),
                                     Append(arguments_values, r.value))

\* Expr::Super: its arm of evaluate is not in interpreter.rs; after the design
\* (the superclass is found through the binding of super that the resolver's
\* synthetic scope stands for, and the method is bound to the runtime this)
evaluate_super(st, expr) ==
    IF ~contains_key(st.locals, expr.keyword)
    THEN Res(st, Panic("no distance for 'super'"), Nil)
    ELSE LET distance == st.locals[expr.keyword]
             superclass == get_at(st.envs, st.env, distance, "super")
             object == get_at(st.envs, st.env, distance - 1, "this")
             method == find_method(st.classes, unwrap(superclass.value).id,
                                   expr.method.lexeme)
         IN  IF superclass.panic
             THEN Res(st, Panic("Undefined variable 'super'"), Nil)
             ELSE IF object.panic
             THEN Res(st, Panic("Undefined variable 'this'"), Nil)
             ELSE IF ~is_some(method)
             THEN Res(st, RuntimeError(Some(expr.method),
                          "Undefined property '" \o expr.method.lexeme \o "'."), Nil)
             ELSE LET b == bind(st.envs, unwrap(method), unwrap(object.value))
                  IN  Res([st EXCEPT !.envs = b.envs], Ok, Callable(b.function))

evaluate(st, expr) ==
    CASE expr.k = "Assign" ->
            LET v == evaluate(st, expr.value)
                name == expr.name
                a == IF contains_key(v.st.locals, name)
                     THEN assign_at(v.st.envs, v.st.env, v.st.locals[name],
                                    name.lexeme, v.value)
                     ELSE [panic |-> FALSE] @@
                          assign(v.st.envs, v.st.env, name.lexeme, v.value)
            IN  IF v.sig.k # "Ok" THEN v
                ELSE IF a.panic
                THEN Res(v.st, Panic("No enclosing environment"), Nil)
                ELSE IF a.success
                THEN Res([v.st EXCEPT !.envs = a.envs], Ok, v.value)
                ELSE Res(v.st, RuntimeError(Some(name),
                             "Undefined variable '" \o name.lexeme \o "'."), Nil)
      [] expr.k = "Binary" ->
            LET l == evaluate(st, expr.left)
            IN  IF l.sig.k # "Ok" THEN l
                ELSE LET r == evaluate(l.st, expr.right)
                     IN  IF r.sig.k # "Ok" THEN r
                         ELSE binary(r.st, expr.operator, l.value, r.value)
      [] expr.k = "Call" ->
            LET c == evaluate(st, expr.callee)
            IN  IF c.sig.k # "Ok" THEN c
                ELSE
                LET a == evaluate_arguments(c.st, expr.arguments, <<>>)
                    callee_value == c.value
                    arguments_values == a.value
                IN  IF a.sig.k # "Ok" THEN Res(a.st, a.sig, Nil)
                    ELSE
                    CASE callee_value.t = "Callable" ->
                            LET function == callee_value.f
                            IN  IF Len(arguments_values) = arity(function)
                                THEN call(a.st, function, arguments_values)
                                ELSE Res(a.st, RuntimeError(Some(expr.paren),
                                             arity_message(arity(function),
                                                           Len(arguments_values))), Nil)
                      [] callee_value.t = "Class" ->
                            LET class == callee_value.id
                                is1 == alloc(a.st.instances, LoxInstance_new(class))
                                instance_type == Instance(Len(is1))
                                s1 == [a.st EXCEPT !.instances = is1]
                                init == find_method(s1.classes, class, "init")
                            IN  IF is_some(init)
                                THEN LET initializer == unwrap(init)
                                     IN  IF Len(arguments_values) = arity(initializer)
                                         THEN LET b == bind(s1.envs, initializer,
                                                            instance_type)
                                                  r == call([s1 EXCEPT !.envs = b.envs],
                                                            b.function, arguments_values)
                                              IN  IF r.sig.k # "Ok" THEN r
                                                  ELSE Res(r.st, Ok, instance_type)
                                         ELSE Res(s1, RuntimeError(Some(expr.paren),
                                                      arity_message(arity(initializer),
                                                          Len(arguments_values))), Nil)
                                ELSE Res(s1, Ok, instance_type)
                      [] OTHER ->
                            Res(a.st, RuntimeError(Some(expr.paren),
                                    "Can only call functions and classes."), Nil)
      [] expr.k = "Get" ->
            LET o == evaluate(st, expr.object)
            IN  IF o.sig.k # "Ok" THEN o
                ELSE IF o.value.t = "Instance"
                THEN LoxInstance_get(o.st, expr.name, o.value)
                ELSE Res(o.st, RuntimeError(Some(expr.name),
                             "Only instances have properties."), Nil)
      [] expr.k = "Grouping" ->
            evaluate(st, expr.expr)
      [] expr.k = "Literal" ->
            Res(st, Ok, expr.lit)
      [] expr.k = "Logical" ->
            LET l == evaluate(st, expr.left)
            IN  IF l.sig.k # "Ok" THEN l
                ELSE IF expr.operator.token_type = "Or"
                THEN IF truthy(l.value) THEN l ELSE evaluate(l.st, expr.right)
                ELSE IF ~truthy(l.value) THEN l ELSE evaluate(l.st, expr.right)
      [] expr.k = "Set" ->
            LET o == evaluate(st, expr.object)
            IN  IF o.sig.k # "Ok" THEN o
                ELSE IF o.value.t = "Instance"
                THEN LET v == evaluate(o.st, expr.value)
                     IN  IF v.sig.k # "Ok" THEN v
                         ELSE Res([v.st EXCEPT !.instances =
                                       LoxInstance_set(@, o.value.id, expr.name, v.value)],
                                  Ok, v.value)
                ELSE Res(o.st, RuntimeError(Some(expr.name),
                             "Only instances have fields."), Nil)
      [] expr.k = "Super" ->
            evaluate_super(st, expr)
      [] expr.k = "This" ->
            lookup_variable(st, expr.keyword)
      [] expr.k = "Unary" ->
            LET r == evaluate(st, expr.right)
            IN  IF r.sig.k # "Ok" THEN r
                ELSE IF expr.operator.token_type = "Bang"
                THEN Res(r.st, Ok, Boolean(~truthy(r.value)))
                ELSE LET n == check_number_operand(r.st, expr.operator, r.value)
                     IN  IF n.sig.k # "Ok" THEN n
                         ELSE Res(r.st, Ok, Number(0 - n.value.n))
      [] expr.k = "Variable" ->
            lookup_variable(st, expr.name)

-----------------------------------------------------------------------------
(* The inputs.  Scanning and parsing are outside the model: an input is    *)
(* the Vec<Stmt> the parser returns for a source text, or a syntax error.  *)
(* A session is what one process is given: the file of run_file, or the    *)
(* lines typed at run_prompt.  Sessions come in families; a, b, c are the  *)
(* parameters of the family.                                               *)

Id(lexeme, line) == Token("Identifier", lexeme, line)

Var(lexeme, line) == Expr_Variable(Id(lexeme, line))

NumLit(n) == Expr_Literal(Number(n))

StrLit(str) == Expr_Literal(String(str))

NilLit == Expr_Literal(Nil)

CallE(callee, arguments, line) ==
    Expr_Call(callee, Token("RightParen", ")", line), arguments)

Plus(left, right, line) == Expr_Binary(left, Token("Plus", "+", line), right)

ThisE(line) == Expr_This(Token("This", "this", line))

ReturnS(value, line) == Stmt_Return(Token("Return", "return", line), value)

Input(stmts) == [syntax_error |-> FALSE, stmts |-> stmts]

SyntaxError == [syntax_error |-> TRUE, stmts |-> <<>>]

Session(kind, repl, a, b, c, inputs) ==
    [kind |-> kind, repl |-> repl, now |-> 0, a |-> a, b |-> b, c |-> c,
     inputs |-> inputs]

File(kind, a, b, c, stmts) == Session(kind, FALSE, a, b, c, <<Input(stmts)>>)

\* the line of the i-th token group: every group on its own line, or all on line 1
Line(oneline, i) == IF oneline THEN 1 ELSE i

(* Nest: n nested blocks; a is declared in block n - k and read in the     *)
(* innermost block (k hops) and, when k > 0, once more in the declaring    *)
(* block after the inner blocks (0 hops).                                  *)
RECURSIVE NestBlock(_, _, _, _)
NestBlock(level, n, d, oneline) ==
    Stmt_Block(
        (IF level = d THEN <<Stmt_Var(Id("a", Line(oneline, 1)), NumLit(7))>> ELSE <<>>)
        \o (IF level < n
            THEN <<NestBlock(level + 1, n, d, oneline)>>
            ELSE <<Stmt_Print(Var("a", Line(oneline, 2)))>>)
        \o (IF level = d /\ level < n
            THEN <<Stmt_Print(Var("a", Line(oneline, 3)))>>
            ELSE <<>>))

NestSessions ==
    UNION { { File("Nest", n, k, IF oneline THEN 1 ELSE 0,
                   <<NestBlock(1, n, n - k, oneline)>>) :
                k \in 0..(n - 1), oneline \in BOOLEAN } :
            n \in 1..MaxNest }

\* the references of a Nest program with the hops from each to its declaration
NestReferences(ses) ==
    LET oneline == ses.c = 1
    IN  {[token |-> Id("a", Line(oneline, 2)), hops |-> ses.b]}
        \cup (IF ses.b > 0
              THEN {[token |-> Id("a", Line(oneline, 3)), hops |-> 0]}
              ELSE {})

(* FreeAssign: a function assigns the free name a; when b = 1 the block    *)
(* that encloses the function declares a local a after the function.       *)
FreeAssignSessions ==
    { File("FreeAssign", 0, b, 0,
        << Stmt_Var(Id("a", 1), StrLit("global")),
           Stmt_Block(
               << Stmt_Function(Id("f", 2), <<>>,
                      <<Stmt_Expression(Expr_Assign(Id("a", 3), StrLit("assigned")))>>) >>
               \o (IF b = 1 THEN <<Stmt_Var(Id("a", 4), StrLit("local"))>> ELSE <<>>)
               \o << Stmt_Expression(CallE(Var("f", 5), <<>>, 5)) >>
               \o (IF b = 1 THEN <<Stmt_Print(Var("a", 6))>> ELSE <<>>)),
           Stmt_Print(Var("a", 7)) >>) :
        b \in 0..1 }

(* FreeRead: a function reads the free name a; it is called before and,    *)
(* when b = 1, after the enclosing block declares a local a.               *)
FreeReadSessions ==
    { File("FreeRead", 0, b, 0,
        << Stmt_Var(Id("a", 1), StrLit("global")),
           Stmt_Block(
               << Stmt_Function(Id("f", 2), <<>>, <<Stmt_Print(Var("a", 3))>>),
                  Stmt_Expression(CallE(Var("f", 4), <<>>, 4)) >>
               \o (IF b = 1 THEN <<Stmt_Var(Id("a", 5), StrLit("local"))>> ELSE <<>>)
               \o << Stmt_Expression(CallE(Var("f", 6), <<>>, 6)) >>
               \o (IF b = 1 THEN <<Stmt_Print(Var("a", 7))>> ELSE <<>>)) >>) :
        b \in 0..1 }

(* Shadow: var a = v1; { var a = v2; print a; } print a;  on one line or   *)
(* on several; when nested, the whole is inside one more block.  c is 1    *)
(* for one line, plus 2 when nested.                                       *)
ShadowStmts(v1, v2, oneline) ==
    << Stmt_Var(Id("a", Line(oneline, 1)), NumLit(v1)),
       Stmt_Block(<< Stmt_Var(Id("a", Line(oneline, 2)), NumLit(v2)),
                     Stmt_Print(Var("a", Line(oneline, 3))) >>),
       Stmt_Print(Var("a", Line(oneline, 4))) >>

ShadowSessions ==
    { File("Shadow", v1, v2, (IF oneline THEN 1 ELSE 0) + (IF nested THEN 2 ELSE 0),
           IF nested THEN <<Stmt_Block(ShadowStmts(v1, v2, oneline))>>
           ELSE ShadowStmts(v1, v2, oneline)) :
        v1 \in 1..MaxLiteral, v2 \in 1..MaxLiteral,
        oneline \in BOOLEAN, nested \in BOOLEAN }

\* print x();  n times, the i-th on line 6 + i
RECURSIVE CounterCalls(_)
CounterCalls(n) ==
    IF n = 0 THEN <<>>
    ELSE CounterCalls(n - 1) \o <<Stmt_Print(CallE(Var("x", 6 + n), <<>>, 6 + n))>>

\* g1(); print g2();  n times, the i-th on lines 8 + 2i and 9 + 2i
RECURSIVE CounterSteps(_)
CounterSteps(n) ==
    IF n = 0 THEN <<>>
    ELSE CounterSteps(n - 1)
         \o << Stmt_Expression(CallE(Var("g1", 8 + 2 * n), <<>>, 8 + 2 * n)),
               Stmt_Print(CallE(Var("g2", 9 + 2 * n), <<>>, 9 + 2 * n)) >>

(* Counter, b = 0: make() returns a closure that increments and returns    *)
(* the local c of that call; x and y come from two calls; x is called a    *)
(* times, then y once.                                                     *)
CounterSeparate(a) ==
    LET inc == Stmt_Function(Id("inc", 3), <<>>,
                   << Stmt_Expression(Expr_Assign(Id("c", 3),
                                          Plus(Var("c", 3), NumLit(1), 3))),
                      ReturnS(Var("c", 3), 3) >>)
        make == Stmt_Function(Id("make", 1), <<>>,
                   << Stmt_Var(Id("c", 2), NumLit(0)), inc,
                      ReturnS(Var("inc", 4), 4) >>)
    IN  << make,
           Stmt_Var(Id("x", 5), CallE(Var("make", 5), <<>>, 5)),
           Stmt_Var(Id("y", 6), CallE(Var("make", 6), <<>>, 6)) >>
        \o CounterCalls(a)
        \o << Stmt_Print(CallE(Var("y", 7 + a), <<>>, 7 + a)) >>

(* Counter, b = 1: one call of mk() creates inc and get over the same      *)
(* local c and stores them in the globals g1 and g2; a times: g1() then    *)
(* print g2().                                                             *)
CounterShared(a) ==
    LET inc == Stmt_Function(Id("inc", 5), <<>>,
                   << Stmt_Expression(Expr_Assign(Id("c", 5),
                                          Plus(Var("c", 5), NumLit(1), 5))) >>)
        getf == Stmt_Function(Id("get", 6), <<>>, <<ReturnS(Var("c", 6), 6)>>)
        mk == Stmt_Function(Id("mk", 3), <<>>,
                   << Stmt_Var(Id("c", 4), NumLit(0)), inc, getf,
                      Stmt_Expression(Expr_Assign(Id("g1", 7), Var("inc", 7))),
                      Stmt_Expression(Expr_Assign(Id("g2", 8), Var("get", 8))) >>)
    IN  << Stmt_Var(Id("g1", 1), NilLit), Stmt_Var(Id("g2", 2), NilLit), mk,
           Stmt_Expression(CallE(Var("mk", 9), <<>>, 9)) >>
        \o CounterSteps(a)

CounterSessions ==
    { File("Counter", a, b, 0, IF b = 0 THEN CounterSeparate(a) ELSE CounterShared(a)) :
        a \in 1..MaxCalls, b \in 0..1 }

(* Super: class A { greet() { return "A"; } } and a subclass B of A.       *)
(* a = 0: B overrides greet with  return super.greet() + "B";              *)
(* a = 1: B is empty.  The last statement is  print B().greet();           *)
SuperSessions ==
    LET classA == Stmt_Class(Id("A", 1),
                      <<Stmt_Function(Id("greet", 1), <<>>,
                            <<ReturnS(StrLit("A"), 1)>>)>>, NoneOpt)
        greetB == Stmt_Function(Id("greet", 2), <<>>,
                      <<ReturnS(Plus(CallE(Expr_Super(Token("Super", "super", 2),
                                                      Id("greet", 2)), <<>>, 2),
                                     StrLit("B"), 2), 2)>>)
        classB(a) == Stmt_Class(Id("B", 2), IF a = 0 THEN <<greetB>> ELSE <<>>,
                                Some(Var("A", 2)))
    IN  { File("Super", a, 0, 0,
            << classA, classB(a),
               Stmt_Print(CallE(Expr_Get(CallE(Var("B", 3), <<>>, 3), Id("greet", 3)),
                                <<>>, 3)) >>) :
          a \in 0..1 }

(* Init: a class whose init(x) sets this.x = x; o = K(b); print o;         *)
(* print o.x;   a = 0: K is that class; a = 1: init ends with  return;     *)
(* a = 2: K is an empty subclass of that class.                            *)
InitSessions ==
    LET setx == Stmt_Expression(Expr_Set(ThisE(2), Id("x", 2), Var("x", 2)))
        init(a) == Stmt_Function(Id("init", 2), <<Id("x", 2)>>,
                       IF a = 1 THEN <<setx, ReturnS(NilLit, 3)>> ELSE <<setx>>)
        classC(a) == Stmt_Class(Id("C", 1), <<init(a)>>, NoneOpt)
        classK == Stmt_Class(Id("K", 4), <<>>, Some(Var("C", 4)))
        made(a) == IF a = 2 THEN "K" ELSE "C"
    IN  { File("Init", a, b, 0,
            << classC(a) >> \o (IF a = 2 THEN <<classK>> ELSE <<>>) \o
            << Stmt_Var(Id("o", 5), CallE(Var(made(a), 5), <<NumLit(b)>>, 5)),
               Stmt_Print(Var("o", 6)),
               Stmt_Print(Expr_Get(Var("o", 7), Id("x", 7))) >>) :
          a \in 0..2, b \in 1..MaxLiteral }

(* Arity: a callable of arity 2 (a = 0: fun f(p, q); a = 2: class C with   *)
(* init(p, q)) or of arity 0 (a = 1: the native clock) is called with b    *)
(* arguments; the body of f and of init prints "body"; the statement after *)
(* the call prints "after".                                                *)
ArityArguments(b) == [i \in 1..b |-> NumLit(i)]

AritySessions ==
    LET body == <<Stmt_Print(StrLit("body"))>>
        decl(a) == IF a = 0
                   THEN <<Stmt_Function(Id("f", 1), <<Id("p", 1), Id("q", 1)>>, body)>>
                   ELSE IF a = 2
                   THEN <<Stmt_Class(Id("C", 1),
                              <<Stmt_Function(Id("init", 1), <<Id("p", 1), Id("q", 1)>>,
                                              body)>>, NoneOpt)>>
                   ELSE <<>>
        callee(a) == IF a = 0 THEN "f" ELSE IF a = 2 THEN "C" ELSE "clock"
    IN  { File("Arity", a, b, 0,
            decl(a) \o
            << Stmt_Expression(CallE(Var(callee(a), 2), ArityArguments(b), 2)),
               Stmt_Print(StrLit("after")) >>) :
          a \in 0..2, b \in 0..MaxArgs }

(* Static: inputs with a static error.  a = 0: the parser reports a syntax *)
(* error; a = 1: return at top level; a = 2: a local declared twice.       *)
(* At the prompt, between  var a = 1;  and  print a;  a = 3: the line      *)
(* print "before"; return 1;   a = 4: a line with a syntax error.          *)
StaticSessions ==
    { Session("Static", FALSE, 0, 0, 0, <<SyntaxError>>),
      Session("Static", TRUE, 3, 0, 0,
          << Input(<<Stmt_Var(Id("a", 1), NumLit(1))>>),
             Input(<< Stmt_Print(StrLit("before")), ReturnS(NumLit(1), 1) >>),
             Input(<<Stmt_Print(Var("a", 1))>>) >>),
      Session("Static", TRUE, 4, 0, 0,
          << Input(<<Stmt_Var(Id("a", 1), NumLit(1))>>),
             SyntaxError,
             Input(<<Stmt_Print(Var("a", 1))>>) >>),
      File("Static", 1, 0, 0,
           << Stmt_Print(StrLit("before")), ReturnS(NumLit(1), 2) >>),
      File("Static", 2, 0, 0,
           << Stmt_Print(StrLit("before")),
              Stmt_Block(<< Stmt_Var(Id("a", 2), NumLit(1)),
                            Stmt_Var(Id("a", 3), NumLit(2)) >>) >>) }

(* Prompt: lines typed at the prompt, each its own input with line 1.      *)
PromptSessions ==
    { Session("Prompt", TRUE, a, 0, 0,
          << Input(<<Stmt_Var(Id("a", 1), NumLit(a))>>),
             Input(<<Stmt_Print(Var("a", 1))>>) >>) :
        a \in 1..MaxLiteral }

(* Undefined: a read of something that is not there.  a = 0: print u;     *)
(* with no u anywhere.  a = 1: class C {} var o = C(); print o.x;          *)
(* a = 2: { var a = 1; print a; } print a;  where the last a has no        *)
(* binding; c = 1 puts the program on one line.                            *)
UndefinedSessions ==
    { File("Undefined", 0, 0, 0, <<Stmt_Print(Var("u", 1))>>),
      File("Undefined", 1, 0, 0,
           << Stmt_Class(Id("C", 1), <<>>, NoneOpt),
              Stmt_Var(Id("o", 2), CallE(Var("C", 2), <<>>, 2)),
              Stmt_Print(Expr_Get(Var("o", 3), Id("x", 3))) >>) }
    \cup
    { File("Undefined", 2, 0, IF oneline THEN 1 ELSE 0,
           << Stmt_Block(<< Stmt_Var(Id("a", Line(oneline, 1)), NumLit(1)),
                            Stmt_Print(Var("a", Line(oneline, 2))) >>),
              Stmt_Print(Var("a", Line(oneline, 3))) >>) :
        oneline \in BOOLEAN }

TrueLit == Expr_Literal(Boolean(TRUE))

\* the statements in a block (c = 0), in  if (true) { }  (c = 1) or in  while (true) { }
ExitWrap(c, stmts) ==
    IF c = 0 THEN Stmt_Block(stmts)
    ELSE IF c = 1 THEN Stmt_If(TrueLit, Stmt_Block(stmts), NoneOpt)
    ELSE Stmt_While(TrueLit, Stmt_Block(stmts))

\* depth wrappers around inner; after each wrapper but the outermost come the rest
RECURSIVE ExitNest(_, _, _, _, _)
ExitNest(level, depth, c, inner, rest) ==
    IF level > depth THEN inner
    ELSE <<ExitWrap(c, ExitNest(level + 1, depth, c, inner, rest))>>
         \o (IF level > 1 THEN rest ELSE <<>>)

(* Exit: a statement leaves b nested wrappers of kind c.                   *)
(* a = 0, normally:  NEST{ print "in"; }  print "after";                   *)
(* a = 1, by a runtime error, at the prompt:  NEST{ print u; ... }  and on *)
(*        the next line  var w = "w"; print w;                             *)
(* a = 2, by return:  { var v = "v"; fun f() { NEST{ return "r"; ... } }   *)
(*        print f(); print v; }  print "after";                            *)
(* where ... is  print "skipped";  after the statement and after each      *)
(* inner wrapper.                                                          *)
ExitSessions ==
    LET skipped == <<Stmt_Print(StrLit("skipped"))>>
    IN  { File("Exit", 0, b, c,
            ExitNest(1, b, c, <<Stmt_Print(StrLit("in"))>>, <<>>)
            \o <<Stmt_Print(StrLit("after"))>>) :
          b \in 1..MaxNest, c \in 0..1 }
        \cup
        { Session("Exit", TRUE, 1, b, c,
            << Input(ExitNest(1, b, c, <<Stmt_Print(Var("u", 1))>> \o skipped, skipped)),
               Input(<< Stmt_Var(Id("w", 1), StrLit("w")),
                        Stmt_Print(Var("w", 1)) >>) >>) :
          b \in 1..MaxNest, c \in 0..2 }
        \cup
        { File("Exit", 2, b, c,
            << Stmt_Block(
                 << Stmt_Var(Id("v", 1), StrLit("v")),
                    Stmt_Function(Id("f", 2), <<>>,
                        ExitNest(1, b, c, <<ReturnS(StrLit("r"), 3)>> \o skipped, skipped)),
                    Stmt_Print(CallE(Var("f", 4), <<>>, 4)),
                    Stmt_Print(Var("v", 5)) >>),
               Stmt_Print(StrLit("after")) >>) :
          b \in 1..MaxNest, c \in 0..2 }

\* statements 1..n of a Halt program; statement i is on line i + 1
RECURSIVE HaltStmts(_, _)
HaltStmts(n, b) ==
    IF n = 0 THEN <<>>
    ELSE LET incr == Stmt_Expression(Expr_Assign(Id("x", n + 1),
                         Plus(Var("x", n + 1), NumLit(1), n + 1)))
         IN  HaltStmts(n - 1, b)
             \o << Stmt_Block(IF n = b
                              THEN <<incr, Stmt_Print(Var("u", n + 1)), incr>>
                              ELSE <<incr, Stmt_Print(Var("x", n + 1))>>) >>

(* Halt: var x = 0;  and then a statements  { x = x + 1; print x; }  of    *)
(* which the b-th (if b > 0) is  { x = x + 1; print u; x = x + 1; }  with  *)
(* no u anywhere.                                                          *)
HaltSessions ==
    UNION { { File("Halt", a, b, 0,
                   <<Stmt_Var(Id("x", 1), NumLit(0))>> \o HaltStmts(a, b)) :
                b \in 0..a } :
            a \in 1..MaxArgs }

(* Equal: var v = E; print v == v; print v != v; print v == O;  where E   *)
(* is nil, true, 1, "s", a function f, a class C, an instance C() for      *)
(* a = 0..6 and O is a value of another variant (1 for nil, else nil).     *)
EqualSessions ==
    LET decl(a) == IF a = 4 THEN <<Stmt_Function(Id("f", 1), <<>>, <<>>)>>
                   ELSE IF a >= 5 THEN <<Stmt_Class(Id("C", 1), <<>>, NoneOpt)>>
                   ELSE <<>>
        E(a) == CASE a = 0 -> NilLit
                  [] a = 1 -> TrueLit
                  [] a = 2 -> NumLit(1)
                  [] a = 3 -> StrLit("s")
                  [] a = 4 -> Var("f", 2)
                  [] a = 5 -> Var("C", 2)
                  [] a = 6 -> CallE(Var("C", 2), <<>>, 2)
        O(a) == IF a = 0 THEN NumLit(1) ELSE NilLit
        eq(line) == Token("EqualEqual", "==", line)
        ne(line) == Token("BangEqual", "!=", line)
    IN  { File("Equal", a, 0, 0,
            decl(a) \o
            << Stmt_Var(Id("v", 2), E(a)),
               Stmt_Print(Expr_Binary(Var("v", 3), eq(3), Var("v", 3))),
               Stmt_Print(Expr_Binary(Var("v", 4), ne(4), Var("v", 4))),
               Stmt_Print(Expr_Binary(Var("v", 5), eq(5), O(a))) >>) :
          a \in 0..6 }

(* Property: class C { m() { return this.tag; } }  var o = C();            *)
(* var p = C();  o.tag = "o";  p.tag = "p";  print o.m();  o.N = "field";   *)
(* print o.N;  [o.N = "again"; print o.N;]  print p.m();  print o.tag;      *)
(* print p.N;  where N is the method's name m (a = 0) or a name n that no   *)
(* method has (a = 1); the bracketed overwrite is there when b = 1.         *)
PropertySessions ==
    LET m == Stmt_Function(Id("m", 1), <<>>,
                 <<ReturnS(Expr_Get(ThisE(1), Id("tag", 1)), 1)>>)
        N(a) == IF a = 0 THEN "m" ELSE "n"
        write(o, name, value, line) ==
            Stmt_Expression(Expr_Set(Var(o, line), Id(name, line), StrLit(value)))
        read(o, name, line) == Stmt_Print(Expr_Get(Var(o, line), Id(name, line)))
        callm(o, line) ==
            Stmt_Print(CallE(Expr_Get(Var(o, line), Id("m", line)), <<>>, line))
    IN  { File("Property", a, b, 0,
            << Stmt_Class(Id("C", 1), <<m>>, NoneOpt),
               Stmt_Var(Id("o", 2), CallE(Var("C", 2), <<>>, 2)),
               Stmt_Var(Id("p", 3), CallE(Var("C", 3), <<>>, 3)),
               write("o", "tag", "o", 4),
               write("p", "tag", "p", 5),
               callm("o", 6),
               write("o", N(a), "field", 7),
               read("o", N(a), 8) >> \o
            (IF b = 1 THEN <<write("o", N(a), "again", 9), read("o", N(a), 10)>>
             ELSE <<>>) \o
            << callm("p", 11),
               read("o", "tag", 12),
               read("p", N(a), 13) >>) :
          a \in 0..1, b \in 0..1 }

(* Initializer: class K { init() {} m() { return "m"; } }  var o = K();   *)
(* print o.init();  print o.m();  where K is C (a = 0) or init (a = 1) and *)
(* the class has no init method when b = 0.                                *)
InitializerSessions ==
    LET K(a) == IF a = 0 THEN "C" ELSE "init"
        init == Stmt_Function(Id("init", 2), <<>>, <<>>)
        m == Stmt_Function(Id("m", 3), <<>>, <<ReturnS(StrLit("m"), 3)>>)
        callp(name, line) ==
            Stmt_Print(CallE(Expr_Get(Var("o", line), Id(name, line)), <<>>, line))
    IN  { File("Initializer", a, b, 0,
            << Stmt_Class(Id(K(a), 1), (IF b = 1 THEN <<init>> ELSE <<>>) \o <<m>>,
                          NoneOpt),
               Stmt_Var(Id("o", 4), CallE(Var(K(a), 4), <<>>, 4)) >> \o
            (IF b = 1 THEN <<callp("init", 5)>> ELSE <<>>) \o
            << callp("m", 6) >>) :
          a \in 0..1, b \in 0..1 }

(* Bind: class C { who() { return this.n; } }  var o = C();  var p = C();  *)
(* o.n = 1;  p.n = 2;  var f = o.who;  var g = p.who;  [var h = o.who;]    *)
(* print f();  print g();  print f();  [print h();]  with g bound before f  *)
(* when a = 1 and the bracketed third binding there when b = 1.            *)
BindSessions ==
    LET who == Stmt_Function(Id("who", 1), <<>>,
                   <<ReturnS(Expr_Get(ThisE(1), Id("n", 1)), 1)>>)
        write(o, n, line) ==
            Stmt_Expression(Expr_Set(Var(o, line), Id("n", line), NumLit(n)))
        method(f, o, line) ==
            Stmt_Var(Id(f, line), Expr_Get(Var(o, line), Id("who", line)))
        callp(f, line) == Stmt_Print(CallE(Var(f, line), <<>>, line))
    IN  { File("Bind", a, b, 0,
            << Stmt_Class(Id("C", 1), <<who>>, NoneOpt),
               Stmt_Var(Id("o", 2), CallE(Var("C", 2), <<>>, 2)),
               Stmt_Var(Id("p", 3), CallE(Var("C", 3), <<>>, 3)),
               write("o", 1, 4),
               write("p", 2, 5) >> \o
            (IF a = 0 THEN <<method("f", "o", 6), method("g", "p", 7)>>
             ELSE <<method("g", "p", 6), method("f", "o", 7)>>) \o
            (IF b = 1 THEN <<method("h", "o", 8)>> ELSE <<>>) \o
            << callp("f", 9), callp("g", 10), callp("f", 11) >> \o
            (IF b = 1 THEN <<callp("h", 12)>> ELSE <<>>)) :
          a \in 0..1, b \in 0..1 }

(* Duplicate: a second declaration of x in one local scope, as a           *)
(* variable, a function or a class after var x in a block (a = 0, 1, 2)    *)
(* or as the second parameter of fun f(x, x) {} (a = 3); then b further    *)
(* static errors, { var y; var y; } and a return at top level; then        *)
(* print "ran";                                                            *)
DuplicateSessions ==
    LET first(a) ==
            CASE a = 0 -> Stmt_Block(<<Stmt_Var(Id("x", 1), NumLit(1)),
                                       Stmt_Var(Id("x", 2), NumLit(2))>>)
              [] a = 1 -> Stmt_Block(<<Stmt_Var(Id("x", 1), NumLit(1)),
                                       Stmt_Function(Id("x", 2), <<>>, <<>>)>>)
              [] a = 2 -> Stmt_Block(<<Stmt_Var(Id("x", 1), NumLit(1)),
                                       Stmt_Class(Id("x", 2), <<>>, NoneOpt)>>)
              [] a = 3 -> Stmt_Function(Id("f", 1), <<Id("x", 1), Id("x", 2)>>, <<>>)
        later == << Stmt_Block(<<Stmt_Var(Id("y", 3), NilLit),
                                 Stmt_Var(Id("y", 4), NilLit)>>),
                    ReturnS(NumLit(1), 5) >>
    IN  { File("Duplicate", a, b, 0,
            <<first(a)>> \o SubSeq(later, 1, b) \o <<Stmt_Print(StrLit("ran"))>>) :
          a \in 0..3, b \in 0..2 }

(* Return: a return statement R, bare (c = 0) or `return 1;` (c = 1),      *)
(* inside BODY, which is  R  (b = 0),  fun g() { R }  (b = 1) or           *)
(* fun g() { return 1; } R  (b = 2); BODY stands at top level (a = 0), in  *)
(* fun f() { BODY } (a = 1), in class C { m() { BODY } } (a = 2) or in     *)
(* class C { init() { BODY } } (a = 3); then print "ran";                  *)
ReturnSessions ==
    LET R(c, line) == ReturnS(IF c = 0 THEN NilLit ELSE NumLit(1), line)
        g(stmts) == Stmt_Function(Id("g", 2), <<>>, stmts)
        BODY(b, c) ==
            CASE b = 0 -> <<R(c, 4)>>
              [] b = 1 -> <<g(<<R(c, 3)>>)>>
              [] b = 2 -> <<g(<<R(1, 3)>>), R(c, 4)>>
        program(a, b, c) ==
            CASE a = 0 -> BODY(b, c)
              [] a = 1 -> <<Stmt_Function(Id("f", 1), <<>>, BODY(b, c))>>
              [] a = 2 -> <<Stmt_Class(Id("C", 1),
                              <<Stmt_Function(Id("m", 1), <<>>, BODY(b, c))>>,
                              NoneOpt)>>
              [] a = 3 -> <<Stmt_Class(Id("C", 1),
                              <<Stmt_Function(Id("init", 1), <<>>, BODY(b, c))>>,
                              NoneOpt)>>
    IN  { File("Return", a, b, c,
               program(a, b, c) \o <<Stmt_Print(StrLit("ran"))>>) :
          a \in 0..3, b \in 0..2, c \in 0..1 }

(* Order: fun t(n) { print n; return n; }                                  *)
(* fun c() { print "callee"; return X; }  fun f(PARAMS) { print "call"; }  *)
(* c()(A1, A2, A3);  print "after";  where X is f with three parameters    *)
(* (a = 0), f with two parameters (a = 1), the string "s" (a = 2) or the   *)
(* undefined variable u (a = 3), and Ai is t(i), except that argument b    *)
(* is the undefined variable u when b > 0.                                 *)
OrderSessions ==
    LET t == Stmt_Function(Id("t", 1), <<Id("n", 1)>>,
                 <<Stmt_Print(Var("n", 1)), ReturnS(Var("n", 1), 1)>>)
        X(a) == CASE a \in {0, 1} -> Var("f", 2)
                  [] a = 2 -> StrLit("s")
                  [] a = 3 -> Var("u", 2)
        c(a) == Stmt_Function(Id("c", 2), <<>>,
                    <<Stmt_Print(StrLit("callee")), ReturnS(X(a), 2)>>)
        f(a) == Stmt_Function(Id("f", 3),
                    SubSeq(<<Id("x", 3), Id("y", 3), Id("z", 3)>>, 1,
                           IF a = 1 THEN 2 ELSE 3),
                    <<Stmt_Print(StrLit("call"))>>)
        A(i, b) == IF i = b THEN Var("u", 4) ELSE CallE(Var("t", 4), <<NumLit(i)>>, 4)
    IN  { File("Order", a, b, 0,
            << t, c(a), f(a),
               Stmt_Expression(CallE(CallE(Var("c", 4), <<>>, 4),
                                     <<A(1, b), A(2, b), A(3, b)>>, 4)),
               Stmt_Print(StrLit("after")) >>) :
          a \in 0..3, b \in 0..3 }

(* Loop: var shared = 0;  var f;  var g;  var i = 0;                       *)
(* while (i < a) { var local = 0;                                          *)
(*   fun inc() { shared = shared + 1; return local = local + 1; }          *)
(*   g = f;  f = inc;  i = i + 1; }                                        *)
(* print f(); (b times)  print g();  print f();  print shared;             *)
(* f is the closure of the last iteration and g the one of the iteration   *)
(* before it.  With c = 1 the loop is  for (var i = 0; i < a;) { ... }     *)
(* as for_statement builds it:  { var i = 0; while (i < a) { ... } }       *)
LoopSessions ==
    LET incr(name, line) ==
            Stmt_Expression(Expr_Assign(Id(name, line),
                                Plus(Var(name, line), NumLit(1), line)))
        gets(name, value, line) ==
            Stmt_Expression(Expr_Assign(Id(name, line), Var(value, line)))
        inc == Stmt_Function(Id("inc", 7), <<>>,
                   <<incr("shared", 7), ReturnS(incr("local", 7).expr, 7)>>)
        body == << Stmt_Var(Id("local", 6), NumLit(0)), inc,
                   gets("g", "f", 8), gets("f", "inc", 9) >>
        condition(a) == Expr_Binary(Var("i", 5), Token("Less", "<", 5), NumLit(a))
        loop(a, c) ==
            IF c = 0
            THEN << Stmt_Var(Id("i", 4), NumLit(0)),
                    Stmt_While(condition(a), Stmt_Block(body \o <<incr("i", 10)>>)) >>
            ELSE << Stmt_Block(<< Stmt_Var(Id("i", 4), NumLit(0)),
                       Stmt_While(condition(a),
                                  Stmt_Block(body \o <<incr("i", 10)>>)) >>) >>
        callp(name, line) == Stmt_Print(CallE(Var(name, line), <<>>, line))
    IN  { File("Loop", a, b, c,
            << Stmt_Var(Id("shared", 1), NumLit(0)),
               Stmt_Var(Id("f", 2), NilLit),
               Stmt_Var(Id("g", 3), NilLit) >> \o
            loop(a, c) \o
            [k \in 1..b |-> callp("f", 10 + k)] \o
            << callp("g", 20), callp("f", 21),
               Stmt_Print(Var("shared", 22)) >>) :
          a \in 2..MaxLoops, b \in 1..MaxCalls, c \in 0..1 }

(* Mirror: { var x = 1;  class A {}  class B { m() { M } }  AFTER }        *)
(* where B is declared `class B < A` when a = 1, and M is `return x;`      *)
(* with AFTER `print B().m();` (b = 0) or M is `x = 2;` with AFTER         *)
(* `B().m(); print x;` (b = 1).  No two tokens of a name share a line.     *)
MirrorSessions ==
    LET M(b) == IF b = 0 THEN ReturnS(Var("x", 5), 5)
                ELSE Stmt_Expression(Expr_Assign(Id("x", 5), NumLit(2)))
        B(a, b) == Stmt_Class(Id("B", 4), <<Stmt_Function(Id("m", 4), <<>>, <<M(b)>>)>>,
                              IF a = 1 THEN Some(Var("A", 4)) ELSE NoneOpt)
        m == CallE(Expr_Get(CallE(Var("B", 6), <<>>, 6), Id("m", 6)), <<>>, 6)
        after(b) == IF b = 0 THEN <<Stmt_Print(m)>>
                  ELSE <<Stmt_Expression(m), Stmt_Print(Var("x", 7))>>
    IN  { File("Mirror", a, b, 0,
            << Stmt_Block(<< Stmt_Var(Id("x", 2), NumLit(1)),
                             Stmt_Class(Id("A", 3), <<>>, NoneOpt),
                             B(a, b) >> \o after(b)) >>) :
          a \in 0..1, b \in 0..1 }

(* Deep: at the prompt, the line                                           *)
(* fun f1() { { var w = "local"; print u; } }  fun f2() { { f1(); } } ...  *)
(* { fa(); }   with u undefined, and on the next line  var w = "w";        *)
(* print w;   The runtime error is raised a calls and a + 1 blocks deep.   *)
DeepSessions ==
    LET name(i) == "f" \o ToString(i)
        f(i) == Stmt_Function(Id(name(i), 1), <<>>,
                    <<Stmt_Block(
                        IF i = 1
                        THEN << Stmt_Var(Id("w", 1), StrLit("local")),
                                Stmt_Print(Var("u", 1)) >>
                        ELSE << Stmt_Expression(CallE(Var(name(i - 1), 1), <<>>, 1)) >>)>>)
    IN  { Session("Deep", TRUE, a, 0, 0,
            << Input([i \in 1..a |-> f(i)] \o
                     << Stmt_Block(<<Stmt_Expression(
                                       CallE(Var(name(a), 1), <<>>, 1))>>) >>),
               Input(<< Stmt_Var(Id("w", 1), StrLit("w")),
                        Stmt_Print(Var("w", 1)) >>) >>) :
          a \in 1..MaxCalls }

(* Table: two lines at the prompt.  The first is  { var a = 1; print a; }  *)
(* (b = 1), or  { var a = 1; }  with no reference (b = 0).  The second is  *)
(* a = 0:  var a = "global"; print a;                                      *)
(* a = 1:  var a = "global"; { print a; }                                  *)
(* a = 2:  var a = "global"; { a = "assigned"; } print a;                  *)
TableSessions ==
    LET declare_global == Stmt_Var(Id("a", 1), StrLit("global"))
        read == Stmt_Print(Var("a", 1))
        second(a) ==
            CASE a = 0 -> <<declare_global, read>>
              [] a = 1 -> <<declare_global, Stmt_Block(<<read>>)>>
              [] a = 2 -> << declare_global,
                             Stmt_Block(<<Stmt_Expression(
                                 Expr_Assign(Id("a", 1), StrLit("assigned")))>>),
                             read >>
    IN  { Session("Table", TRUE, a, b, 0,
            << Input(<<Stmt_Block(<<Stmt_Var(Id("a", 1), NumLit(1))>> \o
                                  (IF b = 1 THEN <<read>> ELSE <<>>))>>),
               Input(second(a)) >>) :
          a \in 0..2, b \in 0..1 }

Sessions ==
    NestSessions \cup FreeAssignSessions \cup FreeReadSessions \cup ShadowSessions
    \cup CounterSessions \cup SuperSessions \cup InitSessions \cup AritySessions
    \cup StaticSessions \cup PromptSessions
    \cup UndefinedSessions \cup ExitSessions \cup HaltSessions
    \cup EqualSessions \cup PropertySessions
    \cup InitializerSessions \cup BindSessions
    \cup DuplicateSessions \cup ReturnSessions
    \cup OrderSessions \cup LoopSessions \cup MirrorSessions
    \cup DeepSessions \cup TableSessions

-----------------------------------------------------------------------------
(* lox.rs: run_file, run_prompt and run, one step per loop iteration.      *)

NoRet == [op |-> "none"]

\* the Vec<Stmt> of the current input
statements == session.inputs[cur].stmts

\* the interpreter and what it works on, as the operators above take it
St ==
    [envs |-> envs, classes |-> classes, instances |-> instances,
     globals |-> interpreter.globals, env |-> interpreter.env,
     locals |-> interpreter.locals, out |-> out, now |-> session.now]

\* the resolver and what it writes outside itself
Rs ==
    [scopes |-> resolver.scopes, current_function |-> resolver.current_function,
     current_class |-> resolver.current_class, locals |-> interpreter.locals,
     had_error |-> had_error, diag |-> diag]

\* lox::runtime_error: a Return signal prints nothing and sets nothing
runtime_error_line(err) ==
    [line |-> IF is_some(err.token) THEN unwrap(err.token).line ELSE 0,
     lexeme |-> "", message |-> err.message]

Init ==
    /\ session \in Sessions
    /\ cur = 1
    /\ pc = "parse"
    /\ idx = 1
    /\ resolver = Resolver_new
    /\ had_error = FALSE
    /\ had_runtime_error = FALSE
    /\ interpreter = Interpreter_new
    /\ envs = Interpreter_new_envs
    /\ classes = <<>>
    /\ instances = <<>>
    /\ out = <<>>
    /\ diag = <<>>
    /\ ret = NoRet

\* run: scan_tokens and parse, each followed by  if had_error() { return; }
Parse ==
    /\ pc = "parse"
    /\ IF session.inputs[cur].syntax_error
       THEN /\ had_error' = TRUE
            /\ diag' = Append(diag, [line |-> 1, lexeme |-> "", message |-> "syntax error"])
            /\ pc' = "ran"
       ELSE /\ pc' = "resolve"
            /\ UNCHANGED <<had_error, diag>>
    /\ idx' = 1
    /\ resolver' = Resolver_new
    /\ UNCHANGED <<session, cur, had_runtime_error, interpreter, envs, classes,
                   instances, out, ret>>

\* Resolver::resolve: one iteration of  for stmt in stmts
ResolveStatement ==
    /\ pc = "resolve"
    /\ idx <= Len(statements)
    /\ \E r \in {resolve_statement(Rs, statements[idx])} :
          /\ resolver' = [scopes |-> r.scopes,
                          current_function |-> r.current_function,
                          current_class |-> r.current_class]
          /\ interpreter' = [interpreter EXCEPT !.locals = r.locals]
          /\ had_error' = r.had_error
          /\ diag' = r.diag
    /\ idx' = idx + 1
    /\ UNCHANGED <<session, cur, pc, had_runtime_error, envs, classes, instances,
                   out, ret>>

\* run that goes on to interpret whatever the resolver reported
ResolveEnd_always_interprets ==
    /\ pc = "resolve"
    /\ idx > Len(statements)
    /\ pc' = "interpret"
    /\ idx' = 1
    /\ UNCHANGED <<session, cur, resolver, had_error, had_runtime_error, interpreter,
                   envs, classes, instances, out, diag, ret>>

\* run: after resolver.resolve,  if had_error() { return; }  else interpret
ResolveEnd ==
    /\ pc = "resolve"
    /\ idx > Len(statements)
    /\ pc' = IF had_error THEN "ran" ELSE "interpret"
    /\ idx' = 1
    /\ UNCHANGED <<session, cur, resolver, had_error, had_runtime_error, interpreter,
                   envs, classes, instances, out, diag, ret>>

\* interpret that reports a runtime error and goes on with the next statement
InterpretStatement_goes_on ==
    /\ pc = "interpret"
    /\ idx <= Len(statements)
    /\ \E r \in {execute(St, statements[idx])} :
          /\ envs' = r.st.envs
          /\ classes' = r.st.classes
          /\ instances' = r.st.instances
          /\ interpreter' = [globals |-> r.st.globals, env |-> r.st.env,
                             locals |-> r.st.locals]
          /\ out' = r.st.out
          /\ pc' = pc
          /\ idx' = idx + 1
          /\ IF r.sig.k = "RuntimeError"
             THEN /\ diag' = Append(diag, runtime_error_line(r.sig))
                  /\ had_runtime_error' = TRUE
             ELSE UNCHANGED <<diag, had_runtime_error>>
    /\ UNCHANGED <<session, cur, resolver, had_error, ret>>

\* Interpreter::interpret: one iteration of  for statement in statements
InterpretStatement ==
    /\ pc = "interpret"
    /\ idx <= Len(statements)
    /\ \E r \in {execute(St, statements[idx])} :
          /\ envs' = r.st.envs
          /\ classes' = r.st.classes
          /\ instances' = r.st.instances
          /\ interpreter' = [globals |-> r.st.globals, env |-> r.st.env,
                             locals |-> r.st.locals]
          /\ out' = r.st.out
          /\ CASE r.sig.k = "Ok" ->
                    /\ pc' = pc
                    /\ idx' = idx + 1
                    /\ UNCHANGED <<diag, had_runtime_error>>
               [] r.sig.k = "RuntimeError" ->
                    /\ pc' = "ran"
                    /\ idx' = idx
                    /\ diag' = Append(diag, runtime_error_line(r.sig))
                    /\ had_runtime_error' = TRUE
               [] r.sig.k = "Return" ->
                    /\ pc' = "ran"
                    /\ idx' = idx
                    /\ UNCHANGED <<diag, had_runtime_error>>
               [] r.sig.k = "Panic" ->
                    /\ pc' = "panic"
                    /\ idx' = idx
                    /\ diag' = Append(diag, [line |-> 0, lexeme |-> "",
                                             message |-> r.sig.message])
                    /\ UNCHANGED had_runtime_error
    /\ UNCHANGED <<session, cur, resolver, had_error, ret>>

\* Interpreter::interpret: the loop ends
InterpretEnd ==
    /\ pc = "interpret"
    /\ idx > Len(statements)
    /\ pc' = "ran"
    /\ UNCHANGED <<session, cur, idx, resolver, had_error, had_runtime_error,
                   interpreter, envs, classes, instances, out, diag, ret>>

\* run_file: after run, exit(65), exit(70) or the end of main
RunFileExit ==
    /\ pc = "ran"
    /\ ~session.repl
    /\ pc' = "exit"
    /\ UNCHANGED <<session, cur, idx, resolver, had_error, had_runtime_error,
                   interpreter, envs, classes, instances, out, diag, ret>>

\* the exit status of the process after run_file
ExitCode == IF had_error THEN 65 ELSE IF had_runtime_error THEN 70 ELSE 0

\* run_prompt: after run, both flags are cleared and the next line is read
PromptNext ==
    /\ pc = "ran"
    /\ session.repl
    /\ cur < Len(session.inputs)
    /\ had_error' = FALSE
    /\ had_runtime_error' = FALSE
    /\ cur' = cur + 1
    /\ pc' = "parse"
    /\ UNCHANGED <<session, idx, resolver, interpreter, envs, classes, instances,
                   out, diag, ret>>

Next ==
    \/ Parse
    \/ ResolveStatement
    \/ ResolveEnd
    \/ InterpretStatement
    \/ InterpretEnd
    \/ RunFileExit
    \/ PromptNext

Spec == Init /\ [][Next]_vars

-----------------------------------------------------------------------------
(* environment.rs on its own: environments are created and filled, then    *)
(* one get_at or assign_at is called and its result kept in ret.  Every    *)
(* define binds the number of the environment it writes, so the value      *)
(* tells the scope it comes from; assign_at writes 0.                      *)

EnvNames == {"a", "b"}

EnvSession == Session("Env", FALSE, 0, 0, 0, <<>>)

InitEnv ==
    /\ session = EnvSession
    /\ cur = 1
    /\ pc = "env"
    /\ idx = 1
    /\ resolver = Resolver_new
    /\ had_error = FALSE
    /\ had_runtime_error = FALSE
    /\ interpreter = Interpreter_new
    /\ envs = <<Environment_new>>
    /\ classes = <<>>
    /\ instances = <<>>
    /\ out = <<>>
    /\ diag = <<>>
    /\ ret = NoRet

\* Rc::new(RefCell::new(Environment::with_enclosing(&enclosing)))
EnvWithEnclosing ==
    /\ ret.op = "none"
    /\ Len(envs) < MaxEnvs
    /\ \E enclosing \in 1..Len(envs) :
          envs' = alloc(envs, with_enclosing(enclosing))
    /\ UNCHANGED <<session, cur, pc, idx, resolver, had_error, had_runtime_error,
                   interpreter, classes, instances, out, diag, ret>>

\* e.borrow_mut().define(name, value)
EnvDefine ==
    /\ ret.op = "none"
    /\ \E e \in 1..Len(envs), name \in EnvNames :
          envs' = define(envs, e, name, Number(e))
    /\ UNCHANGED <<session, cur, pc, idx, resolver, had_error, had_runtime_error,
                   interpreter, classes, instances, out, diag, ret>>

\* e.borrow().get_at(distance, name)
EnvGetAt ==
    /\ ret.op = "none"
    /\ \E e \in 1..Len(envs), distance \in 0..MaxDistance, name \in EnvNames :
          ret' = [op |-> "get_at", e |-> e, distance |-> distance, name |-> name,
                  value |-> Nil, before |-> envs,
                  result |-> get_at(envs, e, distance, name)]
    /\ UNCHANGED <<session, cur, pc, idx, resolver, had_error, had_runtime_error,
                   interpreter, envs, classes, instances, out, diag>>

\* e.borrow_mut().assign_at(distance, name, value)
EnvAssignAt ==
    /\ ret.op = "none"
    /\ \E e \in 1..Len(envs), distance \in 0..MaxDistance, name \in EnvNames :
          \E r \in {assign_at(envs, e, distance, name, Number(0))} :
              /\ envs' = r.envs
              /\ ret' = [op |-> "assign_at", e |-> e, distance |-> distance,
                         name |-> name, value |-> Number(0), before |-> envs,
                         result |-> [panic |-> r.panic, success |-> r.success]]
    /\ UNCHANGED <<session, cur, pc, idx, resolver, had_error, had_runtime_error,
                   interpreter, classes, instances, out, diag>>

\* e.borrow_mut().assign(name, value)
EnvAssign ==
    /\ ret.op = "none"
    /\ \E e \in 1..Len(envs), name \in EnvNames :
          \E r \in {assign(envs, e, name, Number(0))} :
              /\ envs' = r.envs
              /\ ret' = [op |-> "assign", e |-> e, name |-> name,
                         value |-> Number(0), before |-> envs,
                         result |-> r.success]
    /\ UNCHANGED <<session, cur, pc, idx, resolver, had_error, had_runtime_error,
                   interpreter, classes, instances, out, diag>>

NextEnv ==
    \/ EnvWithEnclosing
    \/ EnvDefine
    \/ EnvGetAt
    \/ EnvAssign
    \/ EnvAssignAt

SpecEnv == InitEnv /\ [][NextEnv]_vars

-----------------------------------------------------------------------------
(* class.rs on its own: classes are declared, each with some of the        *)
(* methods a and b and with no superclass or an earlier class as its       *)
(* superclass, then one find_method is called and its result kept in ret.  *)
(* The name token of a method carries the number of its class as its       *)
(* line, so a method tells the class it was declared in.                   *)

InitClass ==
    /\ session = Session("Class", FALSE, 0, 0, 0, <<>>)
    /\ cur = 1
    /\ pc = "class"
    /\ idx = 1
    /\ resolver = Resolver_new
    /\ had_error = FALSE
    /\ had_runtime_error = FALSE
    /\ interpreter = Interpreter_new
    /\ envs = <<Environment_new>>
    /\ classes = <<>>
    /\ instances = <<>>
    /\ out = <<>>
    /\ diag = <<>>
    /\ ret = NoRet

\* Rc::new(RefCell::new(LoxClass::new(name, methods, superclass)))
ClassNew ==
    /\ ret.op = "none"
    /\ Len(classes) < MaxClasses
    /\ \E names \in SUBSET EnvNames, superclass \in 0..Len(classes) :
          LET c == Len(classes) + 1
              methods == [n \in names |->
                             Function_User(Id(n, c), <<>>, <<>>, 1, FALSE)]
          IN  classes' = alloc(classes, LoxClass_new("C", methods, superclass))
    /\ UNCHANGED <<session, cur, pc, idx, resolver, had_error, had_runtime_error,
                   interpreter, envs, instances, out, diag, ret>>

\* c.borrow().find_method(name)
ClassFindMethod ==
    /\ ret.op = "none"
    /\ \E c \in 1..Len(classes), name \in EnvNames :
          ret' = [op |-> "find_method", c |-> c, name |-> name,
                  result |-> find_method(classes, c, name)]
    /\ UNCHANGED <<session, cur, pc, idx, resolver, had_error, had_runtime_error,
                   interpreter, envs, classes, instances, out, diag>>

NextClass ==
    \/ ClassNew
    \/ ClassFindMethod

SpecClass == InitClass /\ [][NextClass]_vars

-----------------------------------------------------------------------------
(* The properties.                                                         *)

\* the process has ended: run_file returned or a panic unwound it
Finished == pc \in {"exit", "panic"}

\* run has returned for the last input of the session
Ran == pc \in {"ran", "exit"} /\ cur = Len(session.inputs)

\* the environment n enclosing links above e, None when the chain is shorter
RECURSIVE nth_enclosing(_, _, _)
nth_enclosing(es, e, n) ==
    IF n = 0 THEN e
    ELSE IF es[e].enclosing = None THEN None
    ELSE nth_enclosing(es, es[e].enclosing, n - 1)

\* the decimal numerals of 1..n
Numerals(n) == [i \in 1..n |-> ToString(i)]

(* C1: after the resolver has run, the table of the interpreter holds for  *)
(* every reference of the program, under the token of the reference, the   *)
(* number of scopes between the reference and the scope that declares the  *)
(* name; also when two references to the name stand on one line at         *)
(* different depths.                                                       *)
C1_HopDistanceOfEveryReference ==
    (session.kind = "Nest" /\ pc = "interpret") =>
        \A r \in NestReferences(session) :
            /\ contains_key(interpreter.locals, r.token)
            /\ interpreter.locals[r.token] = r.hops

(* C2: an assignment whose target the resolver left unresolved writes the  *)
(* global binding only: the local a that the enclosing block declares      *)
(* after the function keeps its value and the global a gets the new one.   *)
C2_UnresolvedAssignWritesGlobalOnly ==
    (session.kind = "FreeAssign" /\ Finished
        /\ ~contains_key(interpreter.locals, Id("a", 3))) =>
        /\ pc = "exit"
        /\ out = IF session.b = 1 THEN <<"local", "assigned">> ELSE <<"assigned">>

(* C3: a read the resolver left unresolved is looked up in the globals     *)
(* only: the function that reads the free name a prints the global value   *)
(* on every call, also after the enclosing block has declared a local a.   *)
C3_UnresolvedReadIsGlobal ==
    (session.kind = "FreeRead" /\ Finished
        /\ ~contains_key(interpreter.locals, Id("a", 3))) =>
        /\ pc = "exit"
        /\ out = <<"global", "global">>
                 \o (IF session.b = 1 THEN <<"local">> ELSE <<>>)

\* the free read ran before and after the block declared its own a
C3_Witness ==
    /\ session.kind = "FreeRead"
    /\ session.b = 1
    /\ pc = "exit"
    /\ ~contains_key(interpreter.locals, Id("a", 3))
    /\ contains_key(interpreter.locals, Id("a", 7))
    /\ Len(out) = 3

(* C4: get_at(distance, name) returns the value that the environment       *)
(* exactly distance links above the receiver binds to name in its own map, *)
(* and no value at all when that environment does not exist or does not    *)
(* bind the name, whatever nearer and farther scopes bind.                 *)
C4_GetAtReadsExactScope ==
    ret.op = "get_at" =>
        LET target == nth_enclosing(envs, ret.e, ret.distance)
        IN  IF target # None /\ ret.name \in DOMAIN envs[target].values
            THEN ret.result = [panic |-> FALSE,
                               value |-> Some(envs[target].values[ret.name])]
            ELSE ret.result = [panic |-> TRUE, value |-> NoneOpt]

\* get_at(1, name) answered while the receiver and the scope two links up bind name too
C4_Witness ==
    /\ ret.op = "get_at"
    /\ ret.distance = 1
    /\ ~ret.result.panic
    /\ ret.name \in DOMAIN envs[ret.e].values
    /\ nth_enclosing(envs, ret.e, 2) # None
    /\ ret.name \in DOMAIN envs[nth_enclosing(envs, ret.e, 2)].values
    /\ unwrap(ret.result.value) # envs[ret.e].values[ret.name]

(* C5: assign_at(distance, name, value) changes the binding of name in the *)
(* environment exactly distance links above the receiver and nothing else: *)
(* every other environment, every other name and every link stay as they   *)
(* were.                                                                   *)
C5_AssignAtWritesExactScope ==
    ret.op = "assign_at" =>
        LET target == nth_enclosing(ret.before, ret.e, ret.distance)
        IN  /\ Len(envs) = Len(ret.before)
            /\ IF target = None
               THEN ret.result.panic /\ envs = ret.before
               ELSE /\ ~ret.result.panic
                    /\ \A i \in 1..Len(envs) :
                          IF i = target
                          THEN /\ envs[i].enclosing = ret.before[i].enclosing
                               /\ ret.name \in DOMAIN envs[i].values
                               /\ envs[i].values[ret.name] = ret.value
                               /\ \A n \in EnvNames \ {ret.name} :
                                     /\ (n \in DOMAIN envs[i].values)
                                          = (n \in DOMAIN ret.before[i].values)
                                     /\ n \in DOMAIN envs[i].values =>
                                          envs[i].values[n] = ret.before[i].values[n]
                          ELSE envs[i] = ret.before[i]

\* assign_at(1, name, value) done while the receiver and the scope two links up bind name too
C5_Witness ==
    /\ ret.op = "assign_at"
    /\ ret.distance = 1
    /\ ~ret.result.panic
    /\ ret.name \in DOMAIN ret.before[ret.e].values
    /\ nth_enclosing(ret.before, ret.e, 2) # None
    /\ ret.name \in DOMAIN ret.before[nth_enclosing(ret.before, ret.e, 2)].values
    /\ ret.name \in DOMAIN ret.before[nth_enclosing(ret.before, ret.e, 1)].values
    /\ envs # ret.before

(* C6: var a = v1; { var a = v2; print a; } print a;  prints v2 then v1:   *)
(* the inner a hides the outer one inside the block only, the outer        *)
(* binding keeps v1, and after the block the environment is the one before *)
(* it.                                                                     *)
C6_BlockShadowing ==
    (session.kind = "Shadow" /\ Finished) =>
        /\ pc = "exit"
        /\ out = <<ToString(session.b), ToString(session.a)>>
        /\ LET outer == IF session.c >= 2 THEN 2 ELSE 1
           IN  /\ outer <= Len(envs)
               /\ contains_key(envs[outer].values, "a")
               /\ envs[outer].values["a"] = Number(session.a)
        /\ interpreter.env = interpreter.globals

\* the program of the spec has run: 2 then 1
C6_Witness ==
    /\ session.kind = "Shadow"
    /\ session.a = 1
    /\ session.b = 2
    /\ session.c = 0
    /\ pc = "exit"
    /\ out = <<"2", "1">>

(* C7: every call of a user function runs in one fresh environment whose   *)
(* parent is the closure: the counters of two calls of make() count apart  *)
(* (1, 2, ... then 1 again), and the two closures of one call of mk()      *)
(* count together (get sees each inc).                                     *)
C7_ClosuresCaptureByReference ==
    (session.kind = "Counter" /\ Finished) =>
        /\ pc = "exit"
        /\ out = IF session.b = 0 THEN Numerals(session.a) \o <<"1">>
                 ELSE Numerals(session.a)
        /\ Len(envs) = IF session.b = 0 THEN session.a + 4 ELSE 2 * session.a + 2

\* x was called twice, then y: the second counter starts at 1
C7_Witness ==
    /\ session.kind = "Counter"
    /\ session.b = 0
    /\ session.a = 2
    /\ pc = "exit"
    /\ out = <<"1", "2", "1">>

(* C8: with class A whose greet returns "A" and class B < A whose greet    *)
(* returns super.greet() + "B", B().greet() is "AB".                       *)
C8_SuperDispatch ==
    (session.kind = "Super" /\ session.a = 0 /\ Finished) =>
        /\ pc = "exit"
        /\ out = <<"AB">>

(* C9: calling a class yields the new instance, after the init of the      *)
(* class or of an ancestor has run on it with the arguments: the instance  *)
(* is printed and its field x is the argument, with or without a return in *)
(* init.                                                                   *)
C9_ClassCallYieldsInitializedInstance ==
    (session.kind = "Init" /\ Finished) =>
        /\ pc = "exit"
        /\ out = << "<instance " \o (IF session.a = 2 THEN "K" ELSE "C") \o ">",
                    ToString(session.b) >>

(* C10: a callable of arity n called with m # n arguments raises the       *)
(* runtime error "Expected n arguments but got m." at the call and its     *)
(* body does not run; with m = n the body runs and the program goes on.    *)
C10_ArityCheckedBeforeCall ==
    (session.kind = "Arity" /\ Finished) =>
        LET expected == IF session.a = 1 THEN 0 ELSE 2
            body == IF session.a = 1 THEN <<>> ELSE <<"body">>
        IN  /\ pc = "exit"
            /\ IF session.b = expected
               THEN /\ out = body \o <<"after">>
                    /\ diag = <<>>
                    /\ ~had_runtime_error
               ELSE /\ out = <<>>
                    /\ had_runtime_error
                    /\ diag = << [line |-> 2, lexeme |-> "",
                                  message |-> "Expected " \o ToString(expected)
                                              \o " arguments but got "
                                              \o ToString(session.b) \o "."] >>

\* the two-parameter function was called with three arguments
C10_Witness ==
    /\ session.kind = "Arity"
    /\ session.a = 0
    /\ session.b = 3
    /\ pc = "exit"
    /\ had_runtime_error
    /\ out = <<>>

(* C11: reading a variable that has no binding, or a property that is     *)
(* neither a field nor a method, ends in a runtime error whose message     *)
(* names the identifier; the interpreter does not panic and no value is    *)
(* printed for the read.                                                   *)
C11_UndefinedAccessIsRuntimeError ==
    (session.kind = "Undefined" /\ Finished) =>
        LET name == IF session.a = 0 THEN "u" ELSE IF session.a = 1 THEN "x" ELSE "a"
            what == IF session.a = 1 THEN "property" ELSE "variable"
            line == IF session.a = 0 \/ session.c = 1 THEN 1 ELSE 3
        IN  /\ pc = "exit"
            /\ had_runtime_error
            /\ out = IF session.a = 2 THEN <<"1">> ELSE <<>>
            /\ diag = << [line |-> line, lexeme |-> "",
                          message |-> "Undefined " \o what \o " '" \o name \o "'."] >>

(* C12: execute_block leaves the current environment as it was before the *)
(* block, whether the block ends normally, by a runtime error or by a      *)
(* Return: between statements the current environment is the global one    *)
(* again, and what runs next (the rest of the caller, the next line of the *)
(* prompt) works in the environment from before the block.                 *)
C12_BlockRestoresEnvironment ==
    session.kind = "Exit" =>
        /\ pc # "panic"
        /\ interpreter.env = interpreter.globals
        /\ Ran => out = IF session.a = 0 THEN <<"in", "after">>
                        ELSE IF session.a = 1 THEN <<"w">>
                        ELSE <<"r", "v", "after">>

\* a runtime error left the nested blocks, and the next line then ran in the globals
C12_Witness ==
    /\ session.kind = "Exit"
    /\ session.a = 1
    /\ session.b >= 2
    /\ session.c = 0
    /\ Ran
    /\ Len(diag) = 1
    /\ out = <<"w">>
    /\ Len(envs) = 1 + session.b
    /\ contains_key(envs[interpreter.globals].values, "w")

(* C13: when resolution reported no error, a Return never reaches the      *)
(* loop over the top-level statements: run ends either with a runtime      *)
(* error or with every top-level statement executed; and a return inside   *)
(* nested blocks, ifs or loops of a function body ends that call only,     *)
(* skipping the rest of the body.                                          *)
C13_ReturnConsumedByCall ==
    /\ (pc \in {"ran", "exit"} /\ ~had_error /\ ~had_runtime_error) =>
            idx > Len(statements)
    /\ (session.kind = "Exit" /\ session.a = 2 /\ Finished) =>
            (pc = "exit" /\ out = <<"r", "v", "after">>)

\* a return inside loops nested in a function body was consumed by the call
C13_Witness ==
    /\ session.kind = "Exit"
    /\ session.a = 2
    /\ session.b >= 2
    /\ session.c = 2
    /\ pc = "exit"
    /\ ~had_error
    /\ out = <<"r", "v", "after">>

(* C14: interpret runs the top-level statements in order and stops at the  *)
(* first one that ends in a runtime error: the statements before it have   *)
(* printed and counted, none after it has, and the error is reported once. *)
C14_InterpretStopsAtFirstError ==
    session.kind = "Halt" =>
        /\ pc = "interpret" => out = Numerals(idx - 2) /\ diag = <<>>
        /\ Ran =>
            IF session.b = 0
            THEN /\ out = Numerals(session.a)
                 /\ envs[interpreter.globals].values["x"] = Number(session.a)
                 /\ diag = <<>>
                 /\ ~had_runtime_error
            ELSE /\ out = Numerals(session.b - 1)
                 /\ envs[interpreter.globals].values["x"] = Number(session.b)
                 /\ diag = << [line |-> session.b + 1, lexeme |-> "",
                               message |-> "Undefined variable 'u'."] >>
                 /\ had_runtime_error
                 /\ idx = session.b + 1

\* the second of three statements failed: the first printed, the third did not run
C14_Witness ==
    /\ session.kind = "Halt"
    /\ session.a = 3
    /\ session.b = 2
    /\ pc = "exit"
    /\ out = <<"1">>
    /\ Len(diag) = 1
    /\ idx = 3

(* C15: in a run, interpret starts only when resolve has gone through all  *)
(* statements and no static error was reported; a run with a static error  *)
(* (from the scanner, the parser or the resolver) executes nothing: no     *)
(* output and no change of any environment, class or instance.             *)
C15_StaticErrorSkipsExecution ==
    [][ /\ (pc' = "interpret" /\ pc # "interpret") =>
              (pc = "resolve" /\ idx > Len(statements) /\ ~had_error)
        /\ (had_error \/ had_error') =>
              /\ pc' # "interpret"
              /\ out' = out
              /\ envs' = envs
              /\ classes' = classes
              /\ instances' = instances ]_vars

\* at the prompt a line with a resolver error ran nothing, and the next line ran
C15_Witness ==
    /\ session.kind = "Static"
    /\ session.a = 3
    /\ cur = 3
    /\ pc = "ran"
    /\ out = <<"1">>
    /\ Len(diag) = 1

(* C16: == and != raise no error for any pair of values; every value, of  *)
(* every variant, is equal to itself; values of different variants are     *)
(* unequal.                                                                *)
C16_EqualityTotalReflexive ==
    (session.kind = "Equal" /\ Finished) =>
        /\ pc = "exit"
        /\ ~had_runtime_error
        /\ out = <<"true", "false", "false">>

(* C17: a property read looks among the instance's own fields first and   *)
(* only then among the methods of its class: with a field named like a     *)
(* method the read yields the field's value, and with the method only it   *)
(* yields the method bound to the instance (its this is the receiver).     *)
C17_FieldsShadowMethods ==
    (session.kind = "Property" /\ Finished) =>
        /\ pc = "exit"
        /\ out = <<"o", "field">> \o
                 (IF session.b = 1 THEN <<"again">> ELSE <<>>) \o
                 <<"p", "o">> \o
                 (IF session.a = 0 THEN <<"<fn m>">> ELSE <<>>)
        /\ had_runtime_error = (session.a = 1)

C17_Witness ==
    /\ session.kind = "Property" /\ session.a = 0 /\ session.b = 1
    /\ pc = "exit"
    /\ contains_key(instances[1].fields, "m")
    /\ contains_key(classes[instances[1].class].methods, "m")
    /\ out = <<"o", "field", "again", "p", "o", "<fn m>">>

(* C18: a property write inserts or overwrites an entry of the receiver's  *)
(* own fields and nothing else: the methods and the superclass of the      *)
(* class and the fields of the other instance of the class stay as they    *)
(* were, also when a method has the written name.                          *)
C18_SetWritesOwnFieldsOnly ==
    session.kind = "Property" =>
        /\ \A c \in 1..Len(classes) :
              /\ classes[c].name = "C"
              /\ DOMAIN classes[c].methods = {"m"}
              /\ classes[c].methods["m"].name = Id("m", 1)
              /\ classes[c].methods["m"].closure = interpreter.globals
              /\ classes[c].superclass = None
        /\ \A i \in 2..Len(instances) :
              /\ instances[i].class = 1
              /\ DOMAIN instances[i].fields \subseteq {"tag"}
              /\ contains_key(instances[i].fields, "tag") =>
                     instances[i].fields["tag"] = String("p")
        /\ Finished =>
              LET N == IF session.a = 0 THEN "m" ELSE "n"
              IN  /\ Len(instances) = 2
                  /\ DOMAIN instances[1].fields = {"tag", N}
                  /\ instances[1].fields["tag"] = String("o")
                  /\ instances[1].fields[N] =
                        String(IF session.b = 1 THEN "again" ELSE "field")

C18_Witness ==
    /\ session.kind = "Property" /\ session.a = 0 /\ session.b = 1
    /\ pc = "exit"
    /\ instances[1].fields["m"] = String("again")
    /\ DOMAIN instances[2].fields = {"tag"}
    /\ DOMAIN classes[1].methods = {"m"}

(* C19: the is_initializer flag of a method is true exactly when the       *)
(* method's own name is init, whatever the class is called: init called on *)
(* an instance returns the instance, and a method of another name returns  *)
(* its own return value.                                                   *)
C19_InitializerFlagFollowsMethodName ==
    session.kind = "Initializer" =>
        /\ \A c \in 1..Len(classes) : \A n \in DOMAIN classes[c].methods :
              classes[c].methods[n].is_initializer = (n = "init")
        /\ Finished =>
              /\ pc = "exit"
              /\ ~had_runtime_error
              /\ out = (IF session.b = 1
                        THEN <<IF session.a = 0 THEN "<instance C>"
                               ELSE "<instance init>">>
                        ELSE <<>>) \o <<"m">>

(* C20: bind(instance) returns a new function with the name, params, body  *)
(* and is_initializer of the method, whose closure is a new environment    *)
(* that encloses the method's closure and binds this, and nothing else, to *)
(* the instance; the method and its closure are unchanged, so the same     *)
(* method bound to two instances gives functions with independent this.    *)
C20_BindMakesFreshClosure ==
    session.kind = "Bind" =>
        LET g == interpreter.globals
            bound == {x \in {"f", "g", "h"} : contains_key(envs[g].values, x)}
            receiver(x) == IF x = "g" THEN 2 ELSE 1
        IN  /\ ~contains_key(envs[g].values, "this")
            /\ \A c \in 1..Len(classes) :
                  /\ DOMAIN classes[c].methods = {"who"}
                  /\ classes[c].methods["who"].closure = g
            /\ \A x \in bound :
                  LET fn == envs[g].values[x].f
                      method == classes[1].methods["who"]
                  IN  /\ fn.name = method.name
                      /\ fn.params = method.params
                      /\ fn.body = method.body
                      /\ fn.is_initializer = method.is_initializer
                      /\ fn.closure # method.closure
                      /\ fn.closure \in 1..Len(envs)
                      /\ envs[fn.closure].enclosing = method.closure
                      /\ DOMAIN envs[fn.closure].values = {"this"}
                      /\ envs[fn.closure].values["this"] = Instance(receiver(x))
                      /\ \A y \in bound \ {x} :
                            envs[g].values[y].f.closure # fn.closure
            /\ Finished =>
                  /\ pc = "exit"
                  /\ out = <<"1", "2", "1">> \o
                           (IF session.b = 1 THEN <<"1">> ELSE <<>>)

C20_Witness ==
    /\ session.kind = "Bind" /\ session.a = 1 /\ session.b = 1
    /\ pc = "exit"
    /\ {"f", "g", "h"} \subseteq DOMAIN envs[interpreter.globals].values
    /\ out = <<"1", "2", "1", "1">>

\* the class n superclass links above c, None when the chain is shorter
RECURSIVE nth_superclass(_, _, _)
nth_superclass(cs, c, n) ==
    IF n = 0 THEN c
    ELSE IF cs[c].superclass = None THEN None
    ELSE nth_superclass(cs, cs[c].superclass, n - 1)

(* C21: find_method(name) returns the method of the nearest class on the   *)
(* superclass chain, the class itself first, whose own method table has    *)
(* name, so the method of a subclass overrides an inherited one; it        *)
(* returns nothing only when no class on the chain has name.               *)
C21_FindMethodNearestOnChain ==
    ret.op = "find_method" =>
        LET chain == {n \in 0..MaxClasses : nth_superclass(classes, ret.c, n) # None}
            class(n) == classes[nth_superclass(classes, ret.c, n)]
            defining == {n \in chain : contains_key(class(n).methods, ret.name)}
        IN  IF defining = {}
            THEN ret.result = NoneOpt
            ELSE \E n \in defining :
                    /\ \A k \in defining : n <= k
                    /\ ret.result = Some(class(n).methods[ret.name])
                    /\ unwrap(ret.result).name.line = nth_superclass(classes, ret.c, n)

C21_Witness ==
    /\ ret.op = "find_method"
    /\ ret.c = 3
    /\ classes[3].superclass = 2 /\ classes[2].superclass = 1
    /\ ~contains_key(classes[3].methods, ret.name)
    /\ contains_key(classes[2].methods, ret.name)
    /\ contains_key(classes[1].methods, ret.name)
    /\ ret.result = Some(classes[2].methods[ret.name])

(* C22: assign(name, value) succeeds only if an environment on the chain   *)
(* binds name already, and then changes the nearest such environment only; *)
(* when none binds name it fails and leaves every environment unchanged.   *)
C22_AssignWritesNearestBinder ==
    ret.op = "assign" =>
        LET chain == {n \in 0..MaxEnvs : nth_enclosing(ret.before, ret.e, n) # None}
            at(n) == nth_enclosing(ret.before, ret.e, n)
            binders == {n \in chain : contains_key(ret.before[at(n)].values, ret.name)}
        IN  IF binders = {}
            THEN ret.result = FALSE /\ envs = ret.before
            ELSE \E n \in binders :
                    /\ \A k \in binders : n <= k
                    /\ ret.result = TRUE
                    /\ envs = [ret.before EXCEPT
                                  ![at(n)].values = insert(@, ret.name, ret.value)]
                    /\ DOMAIN envs[at(n)].values = DOMAIN ret.before[at(n)].values

C22_Witness ==
    /\ ret.op = "assign"
    /\ ret.e = 3
    /\ ret.before[3].enclosing = 2 /\ ret.before[2].enclosing = 1
    /\ ~contains_key(ret.before[3].values, ret.name)
    /\ contains_key(ret.before[2].values, ret.name)
    /\ contains_key(ret.before[1].values, ret.name)
    /\ ret.result = TRUE
    /\ envs[2].values[ret.name] = Number(0)
    /\ envs[1].values[ret.name] = Number(1)

(* C23: assign_at never creates a binding: when the environment distance   *)
(* links up does not bind name already, assign_at adds no binding to it    *)
(* and does not report success.                                            *)
C23_AssignAtCreatesNoBinding ==
    (ret.op = "assign_at" /\ ~ret.result.panic) =>
        LET target == nth_enclosing(ret.before, ret.e, ret.distance)
        IN  ~contains_key(ret.before[target].values, ret.name) =>
                /\ envs = ret.before
                /\ ~ret.result.success

(* C24: declaring a name, as a variable, function, class or parameter, in  *)
(* a local scope that declares it already reports a static error, and the *)
(* resolver goes on over the rest of the program: every later static       *)
(* error of the program is reported in the same pass, and nothing runs.    *)
C24_DuplicateDeclarationReported ==
    (session.kind = "Duplicate" /\ pc \notin {"parse", "resolve"}) =>
        LET duplicate(name, line) ==
                [line |-> line, lexeme |-> name,
                 message |-> "Already a variable with this name in this scope."]
            later == << duplicate("y", 4),
                        [line |-> 5, lexeme |-> "return",
                         message |-> "Can't return from top-level code."] >>
        IN  /\ had_error
            /\ diag = <<duplicate("x", 2)>> \o SubSeq(later, 1, session.b)
            /\ pc # "interpret"
            /\ out = <<>>

C24_Witness ==
    /\ session.kind = "Duplicate" /\ session.a = 3 /\ session.b = 2
    /\ pc = "exit"
    /\ Len(diag) = 3
    /\ diag[1].lexeme = "x" /\ diag[3].lexeme = "return"

(* C25: the resolver judges a return by the kind of its innermost          *)
(* enclosing function, restored when a nested function is left: a return   *)
(* is a static error exactly when no function encloses it, and a return    *)
(* with a value exactly when the innermost enclosing function is an        *)
(* initializer; a value return in a function nested in init is legal, and  *)
(* one in init after that nested function is an error.                     *)
C25_ReturnJudgedByInnermostFunction ==
    (session.kind = "Return" /\ pc \notin {"parse", "resolve"}) =>
        LET innermost == IF session.b = 1 THEN "Function"
                         ELSE <<"None", "Function", "Method", "Initializer">>
                                  [session.a + 1]
            keyword == IF session.b = 1 THEN 3 ELSE 4
            error(message) ==
                <<[line |-> keyword, lexeme |-> "return", message |-> message]>>
            expected ==
                CASE innermost = "None" -> error("Can't return from top-level code.")
                  [] innermost = "Initializer" /\ session.c = 1 ->
                        error("Can't return a value from an initializer.")
                  [] OTHER -> <<>>
        IN  /\ diag = expected
            /\ had_error = (expected # <<>>)
            /\ Finished => pc = "exit" /\ out = IF had_error THEN <<>> ELSE <<"ran">>

\* init() { fun g() { return 1; } return 1; }: the second return is the error
C25_Witness ==
    /\ session.kind = "Return"
    /\ session.a = 3 /\ session.b = 2 /\ session.c = 1
    /\ pc = "exit"
    /\ Len(diag) = 1
    /\ diag[1].line = 4
    /\ diag[1].message = "Can't return a value from an initializer."

(* C26: a call evaluates the callee first, then the arguments from left   *)
(* to right, and only then checks that the callee is a function or a class *)
(* and that the arity matches; a runtime error in the callee or in         *)
(* argument i prevents the evaluation of every later argument and the      *)
(* call itself.                                                            *)
C26_CalleeThenArgumentsThenChecks ==
    (session.kind = "Order" /\ Finished) =>
        LET evaluated == IF session.a = 3 THEN 0
                         ELSE IF session.b = 0 THEN 3 ELSE session.b - 1
            called == session.a = 0 /\ session.b = 0
            message == CASE session.a = 3 -> "Undefined variable 'u'."
                         [] session.b > 0 -> "Undefined variable 'u'."
                         [] session.a = 1 -> "Expected 2 arguments but got 3."
                         [] session.a = 2 -> "Can only call functions and classes."
                         [] OTHER -> ""
        IN  /\ pc = "exit"
            /\ out = <<"callee">> \o SubSeq(Numerals(3), 1, evaluated) \o
                     (IF called THEN <<"call", "after">> ELSE <<>>)
            /\ had_runtime_error = ~called
            /\ Len(diag) = IF called THEN 0 ELSE 1
            /\ ~called => diag[1].message = message

\* the callee is not callable and every argument was evaluated before that was found
C26_Witness ==
    /\ session.kind = "Order" /\ session.a = 2 /\ session.b = 0
    /\ pc = "exit"
    /\ out = <<"callee", "1", "2", "3">>
    /\ had_runtime_error

(* C27: each execution of a loop body that is a block makes a fresh        *)
(* environment enclosing the one current at the loop: closures made in     *)
(* different iterations capture distinct environments for the variables    *)
(* declared in the body (a write through one is not seen through the       *)
(* other) and share the variables declared outside the loop.               *)
C27_LoopBodyFreshEnvironment ==
    (session.kind = "Loop" /\ Finished) =>
        LET g == interpreter.globals
            f_env == envs[g].values["f"].f.closure
            g_env == envs[g].values["g"].f.closure
            \* the environment current at the loop: the globals, or the block of for
            at_loop(e) == nth_enclosing(envs, e, 1)
        IN  /\ pc = "exit"
            /\ out = Numerals(session.b) \o
                     <<"1", ToString(session.b + 1), ToString(session.b + 2)>>
            /\ f_env # g_env
            /\ at_loop(f_env) = at_loop(g_env)
            /\ at_loop(f_env) # None
            /\ envs[at_loop(f_env)].values["i"] = Number(session.a)
            /\ (session.c = 0) = (at_loop(f_env) = g)
            /\ envs[f_env].values["local"] = Number(session.b + 1)
            /\ envs[g_env].values["local"] = Number(1)
            /\ envs[g].values["shared"] = Number(session.b + 2)
            /\ Cardinality({e \in 1..Len(envs) :
                               contains_key(envs[e].values, "local")}) = session.a

C27_Witness ==
    /\ session.kind = "Loop" /\ session.a = 3 /\ session.b = 2 /\ session.c = 1
    /\ pc = "exit"
    /\ out = <<"1", "2", "1", "3", "4">>

(* C28: the scopes of the resolver mirror the environments of the          *)
(* interpreter: in a program that passes resolution every get_at and       *)
(* assign_at with a recorded distance finds, that many links up, an        *)
(* environment that binds the name, so neither panics; also for the        *)
(* references inside the methods of a class declared with a superclass.    *)
C28_ScopesMirrorEnvironments ==
    (session.kind = "Mirror" /\ ~had_error) =>
        /\ pc # "panic"
        /\ ~contains_key(envs[interpreter.globals].values, "x")
        /\ Finished => out = IF session.b = 0 THEN <<"1">> ELSE <<"2">>

(* C29: between top-level statements the current environment of the       *)
(* interpreter is the global environment: after a top-level statement      *)
(* has finished, normally or with a runtime error raised at any depth of   *)
(* nested blocks and function calls, env and globals are the same          *)
(* environment, so the next run on the interpreter starts in global scope. *)
C29_EnvIsGlobalsBetweenStatements ==
    /\ pc # "panic" => interpreter.env = interpreter.globals
    /\ (session.kind = "Deep" /\ Ran) =>
          /\ Len(diag) = 1
          /\ diag[1].message = "Undefined variable 'u'."
          /\ out = <<"w">>
          /\ contains_key(envs[interpreter.globals].values, "w")
          /\ envs[interpreter.globals].values["w"] = String("w")

C29_Witness ==
    /\ session.kind = "Deep" /\ session.a = MaxCalls
    /\ Ran
    /\ Len(diag) = 1
    /\ out = <<"w">>
    /\ Len(envs) = 2 + 2 * session.a
    /\ interpreter.env = interpreter.globals

(* C30: when several inputs run on one interpreter, a distance recorded    *)
(* while an earlier input was resolved never decides how a reference of a  *)
(* later input is looked up: the later reference is looked up with the     *)
(* distance of its own resolver pass, or by name in the globals when that  *)
(* pass left it unresolved, although every input starts at line 1.         *)
C30_EarlierDistancesDoNotLeak ==
    (session.kind = "Table" /\ (Ran \/ pc = "panic")) =>
        /\ pc # "panic"
        /\ out = (IF session.b = 1 THEN <<"1">> ELSE <<>>) \o
                 <<IF session.a = 2 THEN "assigned" ELSE "global">>
        /\ diag = <<>>

====
